---- MODULE Spec2Model ----
(***************************************************************************)
(* Verification model of the two backtest engines of the repository:       *)
(*   - run_backtest     (src/silver_bot/backtest_silver_strategy.py), the  *)
(*     grid / paired-short engine;                                         *)
(*   - execute_backtest (src/final/backtesting_data_prep.py), the signal   *)
(*     engine.                                                             *)
(*                                                                         *)
(* Units.  Prices are integers in units of POINT_VALUE (0.01 price units,  *)
(* one "pip"); money is an integer number of paise (0.01 INR), so that the *)
(* fee 88.74, the swap -19.97 and the 44.0 INR per pip are exact.  The     *)
(* engine's floating-point arithmetic is modelled by exact arithmetic.     *)
(***************************************************************************)
EXTENDS Integers, Sequences, FiniteSets, TLC

\* ------------------------------------------------------------------------
\* Program constants of backtest_silver_strategy.py (scaled as said above)
\* ------------------------------------------------------------------------
FEE_INR_PER_TRADE == 8874
SWAP_LONG_INR_PER_NIGHT == -1997
SWAP_SHORT_INR_PER_NIGHT == 0
PNL_INR_PER_PIP == 4400
POINT_VALUE == 1
STARTING_BALANCE_INR == 10000000
ENTRY_THRESHOLD_PERMILLE == 5
LONG_ENTRY_DOLLAR_STEP == 50
TAKE_PROFIT_PRICE_OFFSET == 50
SHORT_TAKE_PROFIT_PRICE_OFFSET == 100
SHORT_ENTRY_PRICE_OFFSET_FROM_LONG == 200
MAX_HOLD_DAYS == 90
LOSS_FLOOR_INR == -500000
MAX_CONCURRENT_TRADES == 30
STILL_OPEN_TIME == 0

\* Program constants of backtesting_data_prep.py: prices in units of
\* PIP_VALUE_XAU_USD (0.01), money in units of 0.01 USD
INITIAL_BALANCE == 10000000
TRADE_UNITS == 200
PIP_VALUE_XAU_USD == 1
MIN_SL_DISTANCE_PIPS == 10

\* ------------------------------------------------------------------------
\* Bounds of the model
\* ------------------------------------------------------------------------
MaxCandles == 3
MaxCapCandles == 30
MaxBars == 3
MaxSignals == 2
MaxGenBars == 4
MaxPivRows == 2
MaxTrades == 3

\* Candle shapes (open, high, low, close) the series is drawn from.
Candles ==
  { [open |-> 3000, high |-> 3000, low |-> 2980, close |-> 2985],
    [open |-> 3000, high |-> 3040, low |-> 2980, close |-> 3030],
    [open |-> 3000, high |-> 3040, low |-> 3000, close |-> 3040],
    [open |-> 2800, high |-> 2950, low |-> 2800, close |-> 2800],
    [open |-> 3000, high |-> 3000, low |-> 2950, close |-> 2950],
    [open |-> 3000, high |-> 3000, low |-> 2900, close |-> 2900] }

\* Calendar-day gaps between consecutive candles.
DayJumps == {0, 1, 91, 5600}

\* Falling series used to fill the book up to the concurrency limit: the day
\* opens at 30.00 and every candle trades down to 15.00.
CapCandle(n) ==
  IF n = 0 THEN [open |-> 3000, high |-> 3000, low |-> 1500, close |-> 1500]
  ELSE [open |-> 1500, high |-> 1500, low |-> 1500, close |-> 1500]

\* "no value" of an indicator column (NaN)
NaN == -1

\* Rows of df_5m (high, low, close, rsi, sma_rsi) the 5-minute series is drawn from.
Bars ==
  { [high |-> 1010, low |-> 990, close |-> 1005, rsi |-> 60, sma_rsi |-> 50],
    [high |-> 1010, low |-> 990, close |-> 995, rsi |-> 40, sma_rsi |-> 50],
    [high |-> 1110, low |-> 890, close |-> 1000, rsi |-> 60, sma_rsi |-> 50],
    [high |-> 1110, low |-> 990, close |-> 1100, rsi |-> 60, sma_rsi |-> 50],
    [high |-> 1010, low |-> 940, close |-> 1000, rsi |-> 60, sma_rsi |-> 50] }

\* Direction and support/resistance snapshots a signal is drawn from. parsable
\* is FALSE when one of the four snapshot strings is not valid JSON (the sets
\* then hold the levels of the strings that are).
SignalShapes ==
  { [direction |-> "long", supports_15m |-> {950, 1000}, supports_4h |-> {900, 1150},
     resistances_15m |-> {1100, 1000}, resistances_4h |-> {1200, 980}, parsable |-> TRUE],
    [direction |-> "short", supports_15m |-> {950}, supports_4h |-> {1000},
     resistances_15m |-> {1050}, resistances_4h |-> {1100}, parsable |-> TRUE],
    [direction |-> "long", supports_15m |-> {}, supports_4h |-> {},
     resistances_15m |-> {1100}, resistances_4h |-> {}, parsable |-> TRUE],
    [direction |-> "long", supports_15m |-> {995}, supports_4h |-> {950},
     resistances_15m |-> {1100}, resistances_4h |-> {}, parsable |-> TRUE],
    [direction |-> "long", supports_15m |-> {950}, supports_4h |-> {},
     resistances_15m |-> {1030}, resistances_4h |-> {1100}, parsable |-> TRUE],
    [direction |-> "long", supports_15m |-> {980}, supports_4h |-> {990},
     resistances_15m |-> {}, resistances_4h |-> {1100}, parsable |-> TRUE],
    [direction |-> "long", supports_15m |-> {950}, supports_4h |-> {},
     resistances_15m |-> {1100}, resistances_4h |-> {}, parsable |-> FALSE] }

\* Entry price of every signal drawn.
SignalEntryPrice == 1000

\* Thresholds generate_trading_signals is called with.
OPTIMIZED_RSI_LONG_THRESHOLD == 46
OPTIMIZED_RSI_SHORT_THRESHOLD == 60

\* TRADING_WINDOWS_UTC: (start, end) pairs as seconds since midnight,
\* 03:30:00-11:59:59 and 14:15:00-15:30:00
TRADING_WINDOWS_UTC == { << 12600, 43199 >>, << 51300, 55800 >> }

\* Rows of the 5-minute series generate_trading_signals walks. Besides the
\* columns of the bar each row carries the time of day of its timestamp
\* (seconds since midnight, UTC) and what the other inputs yield at its
\* timestamp: trend (get_trend of the 15-minute series) and the pivot levels
\* of the 15-minute and 4-hour series (near: which of the two series has a
\* level one pip away from 1000, "" for neither).
GenRow(rsi, sma_rsi, atr, open, close, tod, trend, near) ==
  [ rsi |-> rsi, sma_rsi |-> sma_rsi, atr |-> atr, open |-> open, close |-> close,
    tod |-> tod, trend |-> trend,
    s_15m |-> IF near = "15m" THEN {999} ELSE {950},
    r_15m |-> IF near = "15m" THEN {1001} ELSE {1100},
    s_4h |-> IF near = "4h" THEN {999} ELSE IF near = "15m" THEN {} ELSE {900},
    r_4h |-> IF near = "4h" THEN {1001} ELSE IF near = "15m" THEN {} ELSE {1200} ]

GenBars ==
  { GenRow(40, 45, 10, 1005, 1000, 36000, "down", ""),
    GenRow(44, 42, 10, 995, 1000, 55800, "down", ""),
    GenRow(62, 45, 10, 997, 1002, 36000, "down", ""),
    GenRow(62, 65, 10, 1005, 1000, 12600, "down", ""),
    GenRow(NaN, 42, 10, 995, 1000, 36000, "down", ""),
    GenRow(44, 42, NaN, 995, 1000, 36000, "down", ""),
    GenRow(40, NaN, 10, 1005, 1000, 36000, "down", ""),
    GenRow(45, 45, 10, 1000, 1000, 36000, "down", ""),
    GenRow(44, 42, 10, 995, 1000, 43200, "down", ""),
    GenRow(44, 42, 10, 995, 1000, 36000, "up", ""),
    GenRow(44, 42, 10, 995, 1000, 36000, "down", "15m"),
    GenRow(62, 65, 0, 997, 1002, 36000, "down", "15m"),
    GenRow(62, 65, 10, 1005, 1000, 36000, "down", "4h") }

VARIABLES
  pc,                    \* position of run_backtest in its candle loop
  t,                     \* number of candles read so far (index of the current one)
  candle,                \* the current row of df
  daily_open_price,      \* 0 stands for None
  current_day,           \* -1 stands for None
  open_long_positions,
  open_short_positions,
  trades,
  equity,
  peak_equity,
  max_drawdown,          \* a fraction <<num, den>>
  max_concurrent_mae,
  todo,                  \* rest of the copy list(...) a for loop iterates over
  opened,                \* history: keys of the positions appended so far
  \* --- execute_backtest ---
  spc,                   \* position of execute_backtest in its loops
  df_5m,                 \* the 5-minute series (a sequence of rows)
  n_sig,                 \* number of signals taken from `signals` so far
  sig,                   \* the loop variable of `for sig in signals`
  stop_loss_price,       \* 0 stands for None
  take_profit_price,     \* 0 stands for None
  k,                     \* index of the row the exit scan looks at (1-based)
  bt_trades,             \* the list `trades` of execute_backtest
  balance,
  \* --- generate_trading_signals ---
  gpc,                   \* position of generate_trading_signals
  gen_df,                \* its df_5m, with the per-bar context of the other series
  gi,                    \* the loop index i (1-based)
  signals,               \* the list of signals built so far
  \* --- get_pivot_points ---
  ppc,                   \* "call" before get_pivot_points has run, "done" after
  df_data,               \* its argument (a sequence of rows)
  pivots,                \* the pair of lists it returns
  \* --- calculate_and_print_metrics ---
  mpc,                   \* "call" before the metrics are computed, "done" after
  metrics_trades,        \* its argument `trades` (the ledger)
  initial_balance,       \* its argument initial_balance
  metrics_dict           \* what it returns

silvervars == << pc, t, candle, daily_open_price, current_day, open_long_positions,
                 open_short_positions, trades, equity, peak_equity, max_drawdown,
                 max_concurrent_mae, todo, opened >>

sigvars == << spc, df_5m, n_sig, sig, stop_loss_price, take_profit_price, k,
              bt_trades, balance >>

genvars == << gpc, gen_df, gi, signals >>

pivvars == << ppc, df_data, pivots >>

metvars == << mpc, metrics_trades, initial_balance, metrics_dict >>

\* the state of the two functions that are called on their own
fnvars == << pivvars, metvars >>

vars == << silvervars, sigvars, genvars, fnvars >>

\* ------------------------------------------------------------------------
\* Helpers
\* ------------------------------------------------------------------------
Max(a, b) == IF a >= b THEN a ELSE b

Last(s) == s[Len(s)]

\* mutant: the closed position is not removed from its list
RemoveFirstKeepsAll(s, x) == s

\* list.remove(x): drops the first element equal to x
RemoveFirst(s, x) ==
  LET hits == { i \in 1..Len(s) : s[i] = x } IN
  IF hits = {} THEN s
  ELSE LET first == CHOOSE i \in hits : \A j \in hits : i <= j IN
       [ i \in 1..(Len(s) - 1) |-> IF i < first THEN s[i] ELSE s[i + 1] ]

\* in-place mutation of the dict x held by the list s
ReplaceFirst(s, x, y) ==
  LET hits == { i \in 1..Len(s) : s[i] = x } IN
  IF hits = {} THEN s
  ELSE LET first == CHOOSE i \in hits : \A j \in hits : i <= j IN
       [ s EXCEPT ![first] = y ]

\* a/b <= c/d for a, c >= 0 and b, d > 0, without forming the products
RECURSIVE FracLeq(_, _, _, _)
FracLeq(a, b, c, d) ==
  LET qa == a \div b
      qc == c \div d
      ra == a % b
      rc == c % d
  IN IF qa # qc THEN qa < qc
     ELSE IF ra = 0 THEN TRUE
     ELSE IF rc = 0 THEN FALSE
     ELSE FracLeq(d, rc, b, ra)

FracMax(x, y) == IF FracLeq(y[1], y[2], x[1], x[2]) THEN x ELSE y

Zero == << 0, 1 >>

\* ------------------------------------------------------------------------
\* run_backtest: P&L, swap and bookkeeping formulas
\* ------------------------------------------------------------------------
NoCandle == [t |-> 0, day |-> 0, tod |-> 0, open |-> 0, high |-> 0, low |-> 0, close |-> 0]

\* (exit_date - entry_date).days, clipped at 0
DaysHeld(p) ==
  LET d == candle.day - p.entry_day IN IF d < 0 THEN 0 ELSE d

\* pips moved in the position's favour, times the value of a pip
GrossLong(entry, exit) == ((exit - entry) \div POINT_VALUE) * PNL_INR_PER_PIP
GrossShort(entry, exit) == ((entry - exit) \div POINT_VALUE) * PNL_INR_PER_PIP

Gross(side, entry, exit) ==
  IF side = "LONG" THEN GrossLong(entry, exit) ELSE GrossShort(entry, exit)

SwapRate(side) ==
  IF side = "LONG" THEN SWAP_LONG_INR_PER_NIGHT ELSE SWAP_SHORT_INR_PER_NIGHT

Swap(side, p) == DaysHeld(p) * SwapRate(side)

\* fee charged on a closed trade
ClosedFee == FEE_INR_PER_TRADE

\* mutant: the round-trip fee is charged on a position that is still open
StillOpenFeeCharged == FEE_INR_PER_TRADE

\* fees_inr = 0 for a position still open at the end of the data
StillOpenFee == 0

\* mutant: the swap is left out of the net P&L
NetPnlWithoutSwap(gross, swap, fees) == gross - fees

NetPnl(gross, swap, fees) == gross + swap - fees

\* does the current candle move against a position entered at `entry`?
IsAdverse(side, entry) ==
  IF side = "LONG" THEN candle.low < entry ELSE candle.high > entry

\* adverse pips of the current candle, in INR
CurrentMae(side, entry) ==
  IF side = "LONG"
  THEN ((entry - candle.low) \div POINT_VALUE) * PNL_INR_PER_PIP
  ELSE ((candle.high - entry) \div POINT_VALUE) * PNL_INR_PER_PIP

\* mutant: the stored excursion is overwritten by the current candle's
MaeUpdateOverwrites(old, current_mae_inr) == current_mae_inr

\* position['mae_inr'] = max(position.get('mae_inr', 0.0), current_mae_inr)
MaeUpdate(old, current_mae_inr) == Max(old, current_mae_inr)

\* "mae_inr": 0.0 at creation, then max(0.0, initial adverse move) if adverse
InitialMae(side, entry) ==
  IF IsAdverse(side, entry) THEN Max(0, CurrentMae(side, entry)) ELSE 0

\* mutant: the drawdown is kept in percent
CurrentDrawdownPercent(pk, eq) ==
  IF pk > 0 /\ eq < pk THEN << (pk - eq) * 100, pk >> ELSE Zero

CurrentDrawdown(pk, eq) ==
  IF pk > 0 /\ eq < pk THEN << pk - eq, pk >> ELSE Zero

\* mutant: the fee is left out of the equity update
EquityAfterWithoutFee(net) == equity + net + FEE_INR_PER_TRADE

\* equity += net; current_drawdown; max_drawdown = max(..); peak_equity = max(..)
EquityAfter(net) == equity + net
MaxDrawdownAfter(net) ==
  FracMax(max_drawdown, CurrentDrawdown(peak_equity, EquityAfter(net)))

\* mutant: the peak follows the equity down
PeakAfterFollowsEquity(net) == EquityAfter(net)

\* peak_equity = max(peak_equity, equity)
PeakAfter(net) == Max(peak_equity, EquityAfter(net))

TradeRecord(p, exit_time, exit_price, gross, swap, fees, net, status) ==
  [ trade_type       |-> p.trade_type,
    entry_time       |-> p.entry_time,
    entry_price      |-> p.entry_price,
    exit_time        |-> exit_time,
    exit_price       |-> exit_price,
    gross_pnl_inr    |-> gross,
    swap_charges_inr |-> swap,
    fees_inr         |-> fees,
    mae_inr          |-> p.mae_inr,
    net_pnl_inr      |-> net,
    status           |-> status ]

\* key by which a position is found again in the ledger
Key(r) == << r.trade_type, r.entry_time >>

Side(p) == IF p.trade_type = "LONG" THEN "LONG" ELSE "SHORT"

\* trade closed on the current candle at exit_price
ClosedRecord(p, exit_price, swap, status) ==
  LET gross == Gross(Side(p), p.entry_price, exit_price)
  IN TradeRecord(p, candle.t, exit_price, gross, swap, ClosedFee,
                 NetPnl(gross, swap, ClosedFee), status)

\* ------------------------------------------------------------------------
\* 90-day trade closure rule
\* ------------------------------------------------------------------------
FloatingNetPnlForCheck(p) ==
  Gross(Side(p), p.entry_price, candle.close) + Swap(Side(p), p)

\* mutant: the loss floor is tested on the gross P&L, without the swap
Rule90AppliesOnGross(p) ==
  /\ DaysHeld(p) > MAX_HOLD_DAYS
  /\ Gross(Side(p), p.entry_price, candle.close) > LOSS_FLOOR_INR

\* mutant: the rule steps back when the take-profit is reached on the candle
Rule90AppliesUnlessTp(p) ==
  /\ DaysHeld(p) > MAX_HOLD_DAYS
  /\ FloatingNetPnlForCheck(p) > LOSS_FLOOR_INR
  /\ IF Side(p) = "LONG"
     THEN candle.high < p.entry_price + TAKE_PROFIT_PRICE_OFFSET
     ELSE candle.low > p.tp_price

Rule90Applies(p) ==
  DaysHeld(p) > MAX_HOLD_DAYS /\ FloatingNetPnlForCheck(p) > LOSS_FLOOR_INR

\* ------------------------------------------------------------------------
\* run_backtest: state machine
\* ------------------------------------------------------------------------
NoSignal ==
  [ direction |-> "", entry_datetime |-> 0, entry_price |-> 0,
    supports_15m |-> {}, supports_4h |-> {},
    resistances_15m |-> {}, resistances_4h |-> {}, parsable |-> TRUE ]

\* generate_trading_signals not started
\* get_pivot_points returns [], [] for an input it cannot use
NoPivots == [ s |-> << >>, r |-> << >> ]

\* calculate_and_print_metrics returns None for an empty ledger
NoMetrics ==
  [ none |-> TRUE, total_trades |-> 0, winning_trades |-> 0, losing_trades |-> 0,
    win_rate |-> << 0, 1 >>, profit_factor |-> << 0, 1 >>,
    max_drawdown_percentage |-> << 0, 1 >> ]

\* neither of the two functions is being called
FnIdle ==
  /\ ppc = "idle" /\ df_data = << >> /\ pivots = NoPivots
  /\ mpc = "idle" /\ metrics_trades = << >> /\ initial_balance = 0
  /\ metrics_dict = NoMetrics

GenIdle ==
  /\ gpc = "start"
  /\ gen_df = << >>
  /\ gi = 0
  /\ signals = << >>

\* execute_backtest not started
SigIdle ==
  /\ spc = "sig"
  /\ df_5m = << >>
  /\ n_sig = 0
  /\ sig = NoSignal
  /\ stop_loss_price = 0
  /\ take_profit_price = 0
  /\ k = 0
  /\ bt_trades = << >>
  /\ balance = INITIAL_BALANCE

InitSilver ==
  /\ pc = "next"
  /\ t = 0
  /\ candle = NoCandle
  /\ daily_open_price = 0
  /\ current_day = -1
  /\ open_long_positions = << >>
  /\ open_short_positions = << >>
  /\ trades = << >>
  /\ equity = STARTING_BALANCE_INR
  /\ peak_equity = STARTING_BALANCE_INR
  /\ max_drawdown = Zero
  /\ max_concurrent_mae = 0
  /\ todo = << >>
  /\ opened = << >>

Init == InitSilver /\ SigIdle /\ GenIdle /\ FnIdle

\* for index, row in df.iterrows(): the next row, and the new-day bookkeeping
ReadCandle(shape, jump) ==
  LET day == IF t = 0 THEN 0 ELSE candle.day + jump
      tod == IF t > 0 /\ jump = 0 THEN candle.tod + 1 ELSE 0
      row == [ t |-> t + 1, day |-> day, tod |-> tod, open |-> shape.open,
               high |-> shape.high, low |-> shape.low, close |-> shape.close ]
  IN /\ t' = t + 1
     /\ candle' = row
     /\ IF current_day # day
        THEN daily_open_price' = row.open /\ current_day' = day
        ELSE UNCHANGED << daily_open_price, current_day >>
     /\ todo' = open_long_positions
     /\ pc' = "rule90_long"
     /\ UNCHANGED << open_long_positions, open_short_positions, trades, equity,
                     peak_equity, max_drawdown, max_concurrent_mae, opened >>
     /\ UNCHANGED << sigvars, genvars, fnvars >>

NextCandle ==
  /\ pc = "next"
  /\ t < MaxCandles
  /\ \E shape \in Candles, jump \in DayJumps : ReadCandle(shape, jump)

\* mutant: the position closed by the rule stays in its list
Rule90ResultKeepsOpen(p, book) ==
  IF Rule90Applies(p)
  THEN LET rec == ClosedRecord(p, candle.close, Swap(Side(p), p), "CLOSED_90_DAY_RULE")
       IN [ book |-> book, trades |-> Append(trades, rec),
            equity |-> EquityAfter(rec.net_pnl_inr),
            max_drawdown |-> MaxDrawdownAfter(rec.net_pnl_inr),
            peak_equity |-> PeakAfter(rec.net_pnl_inr) ]
  ELSE [ book |-> book, trades |-> trades, equity |-> equity,
         max_drawdown |-> max_drawdown, peak_equity |-> peak_equity ]

\* one iteration of a 90-day-rule loop over the copy `todo` of the list `book`
Rule90Result(p, book) ==
  IF Rule90Applies(p)
  THEN LET rec == ClosedRecord(p, candle.close, Swap(Side(p), p), "CLOSED_90_DAY_RULE")
       IN [ book |-> RemoveFirst(book, p), trades |-> Append(trades, rec),
            equity |-> EquityAfter(rec.net_pnl_inr),
            max_drawdown |-> MaxDrawdownAfter(rec.net_pnl_inr),
            peak_equity |-> PeakAfter(rec.net_pnl_inr) ]
  ELSE [ book |-> book, trades |-> trades, equity |-> equity,
         max_drawdown |-> max_drawdown, peak_equity |-> peak_equity ]

Rule90Long ==
  /\ pc = "rule90_long"
  /\ IF todo = << >>
     THEN /\ pc' = "rule90_short"
          /\ todo' = open_short_positions
          /\ UNCHANGED << open_long_positions, trades, equity, peak_equity, max_drawdown >>
     ELSE LET r == Rule90Result(Head(todo), open_long_positions)
          IN /\ open_long_positions' = r.book
             /\ trades' = r.trades
             /\ equity' = r.equity
             /\ max_drawdown' = r.max_drawdown
             /\ peak_equity' = r.peak_equity
             /\ todo' = Tail(todo)
             /\ pc' = pc
  /\ UNCHANGED << t, candle, daily_open_price, current_day, open_short_positions,
                  max_concurrent_mae, opened >>
  /\ UNCHANGED << sigvars, genvars, fnvars >>

Rule90Short ==
  /\ pc = "rule90_short"
  /\ IF todo = << >>
     THEN /\ pc' = "tp_long"
          /\ todo' = open_long_positions
          /\ UNCHANGED << open_short_positions, trades, equity, peak_equity, max_drawdown >>
     ELSE LET r == Rule90Result(Head(todo), open_short_positions)
          IN /\ open_short_positions' = r.book
             /\ trades' = r.trades
             /\ equity' = r.equity
             /\ max_drawdown' = r.max_drawdown
             /\ peak_equity' = r.peak_equity
             /\ todo' = Tail(todo)
             /\ pc' = pc
  /\ UNCHANGED << t, candle, daily_open_price, current_day, open_long_positions,
                  max_concurrent_mae, opened >>
  /\ UNCHANGED << sigvars, genvars, fnvars >>

\* mutant: the long take-profit is tested against the close, not the high
LongTpHitOnClose(p) == candle.close >= p.entry_price + TAKE_PROFIT_PRICE_OFFSET

\* take-profit test of an open position on the current candle
LongTpHit(p) == candle.high >= p.entry_price + TAKE_PROFIT_PRICE_OFFSET
ShortTpHit(p) == candle.low <= p.tp_price

LongTpPrice(p) == p.entry_price + TAKE_PROFIT_PRICE_OFFSET
ShortTpPrice(p) == p.tp_price

\* one iteration of a "Manage Open ... Positions" loop: MAE update, then TP
ManageResult(p, book, hit, price) ==
  LET q == IF IsAdverse(Side(p), p.entry_price)
           THEN [ p EXCEPT !.mae_inr =
                    MaeUpdate(p.mae_inr, CurrentMae(Side(p), p.entry_price)) ]
           ELSE p
      marked == ReplaceFirst(book, p, q)
  IN IF hit
     THEN LET rec == ClosedRecord(q, price, Swap(Side(q), q), "CLOSED_TP")
          IN [ book |-> RemoveFirst(marked, q), trades |-> Append(trades, rec),
               equity |-> EquityAfter(rec.net_pnl_inr),
               max_drawdown |-> MaxDrawdownAfter(rec.net_pnl_inr),
               peak_equity |-> PeakAfter(rec.net_pnl_inr) ]
     ELSE [ book |-> marked, trades |-> trades, equity |-> equity,
            max_drawdown |-> max_drawdown, peak_equity |-> peak_equity ]

ManageLong ==
  /\ pc = "tp_long"
  /\ IF todo = << >>
     THEN /\ pc' = "tp_short"
          /\ todo' = open_short_positions
          /\ UNCHANGED << open_long_positions, trades, equity, peak_equity, max_drawdown >>
     ELSE LET p == Head(todo)
              r == ManageResult(p, open_long_positions, LongTpHit(p), LongTpPrice(p))
          IN /\ open_long_positions' = r.book
             /\ trades' = r.trades
             /\ equity' = r.equity
             /\ max_drawdown' = r.max_drawdown
             /\ peak_equity' = r.peak_equity
             /\ todo' = Tail(todo)
             /\ pc' = pc
  /\ UNCHANGED << t, candle, daily_open_price, current_day, open_short_positions,
                  max_concurrent_mae, opened >>
  /\ UNCHANGED << sigvars, genvars, fnvars >>

ManageShort ==
  /\ pc = "tp_short"
  /\ IF todo = << >>
     THEN /\ pc' = "entry"
          /\ todo' = << >>
          /\ UNCHANGED << open_short_positions, trades, equity, peak_equity, max_drawdown >>
     ELSE LET p == Head(todo)
              r == ManageResult(p, open_short_positions, ShortTpHit(p), ShortTpPrice(p))
          IN /\ open_short_positions' = r.book
             /\ trades' = r.trades
             /\ equity' = r.equity
             /\ max_drawdown' = r.max_drawdown
             /\ peak_equity' = r.peak_equity
             /\ todo' = Tail(todo)
             /\ pc' = pc
  /\ UNCHANGED << t, candle, daily_open_price, current_day, open_long_positions,
                  max_concurrent_mae, opened >>
  /\ UNCHANGED << sigvars, genvars, fnvars >>

\* ------------------------------------------------------------------------
\* run_backtest: entry logic
\* ------------------------------------------------------------------------
RECURSIVE SumAdverse(_, _)
SumAdverse(book, side) ==
  IF book = << >> THEN 0
  ELSE (IF IsAdverse(side, Head(book).entry_price)
        THEN Max(0, CurrentMae(side, Head(book).entry_price)) ELSE 0)
       + SumAdverse(Tail(book), side)

MomentaryTotalAdverseExcursion ==
  SumAdverse(open_long_positions, "LONG") + SumAdverse(open_short_positions, "SHORT")

\* open longs taken against the current daily open
RelevantOpenLongs ==
  { i \in 1..Len(open_long_positions) :
      open_long_positions[i].daily_open_ref = daily_open_price }

EntriesTodayCount == Cardinality(RelevantOpenLongs)

\* daily_open_price * (1 - ENTRY_THRESHOLD_PERCENT)
FirstEntryPrice == (daily_open_price * (1000 - ENTRY_THRESHOLD_PERMILLE)) \div 1000

MostRecentLongForDay ==
  open_long_positions[
    CHOOSE i \in RelevantOpenLongs :
      \A j \in RelevantOpenLongs :
        open_long_positions[j].entry_time <= open_long_positions[i].entry_time ]

\* mutant: every entry of the day uses the percentage trigger
NextEntryTargetPriceFirstOnly ==
  FirstEntryPrice

NextEntryTargetPrice ==
  IF EntriesTodayCount = 0 THEN FirstEntryPrice
  ELSE MostRecentLongForDay.entry_price - LONG_ENTRY_DOLLAR_STEP

OpenCount == Len(open_long_positions) + Len(open_short_positions)

CanOpenNewTrade == OpenCount < MAX_CONCURRENT_TRADES

\* mutant: the id counts the open positions only, not the ledger
PositionIdFromOpenCount(prefix) ==
  [ prefix |-> prefix, n |-> OpenCount + 1, hms |-> candle.tod ]

\* f"...-{len(trades) + len(open_long_positions) + len(open_short_positions) + 1}-{%H%M%S%f}"
PositionId(prefix) ==
  [ prefix |-> prefix, n |-> Len(trades) + OpenCount + 1, hms |-> candle.tod ]

NewLongPosition(entry_price) ==
  [ id |-> PositionId("LPos"), trade_type |-> "LONG", entry_time |-> candle.t,
    entry_day |-> candle.day, entry_price |-> entry_price,
    tp_price |-> entry_price + TAKE_PROFIT_PRICE_OFFSET,
    daily_open_ref |-> daily_open_price,
    mae_inr |-> InitialMae("LONG", entry_price) ]

\* mutant: the short's take-profit is measured from the long's entry price
NewOriginalShortPositionTpFromLong(entry_price) ==
  LET short_entry == entry_price + SHORT_ENTRY_PRICE_OFFSET_FROM_LONG
  IN [ id |-> PositionId("SPosOrig"), trade_type |-> "SHORT_ORIG",
       entry_time |-> candle.t, entry_day |-> candle.day,
       entry_price |-> short_entry,
       tp_price |-> entry_price - SHORT_TAKE_PROFIT_PRICE_OFFSET,
       daily_open_ref |-> daily_open_price,
       mae_inr |-> InitialMae("SHORT", short_entry) ]

NewOriginalShortPosition(entry_price) ==
  LET short_entry == entry_price + SHORT_ENTRY_PRICE_OFFSET_FROM_LONG
  IN [ id |-> PositionId("SPosOrig"), trade_type |-> "SHORT_ORIG",
       entry_time |-> candle.t, entry_day |-> candle.day,
       entry_price |-> short_entry,
       tp_price |-> short_entry - SHORT_TAKE_PROFIT_PRICE_OFFSET,
       daily_open_ref |-> daily_open_price,
       mae_inr |-> InitialMae("SHORT", short_entry) ]

\* max_concurrent_mae, trigger price, concurrency limit, and the new long
Entry ==
  /\ pc = "entry"
  /\ max_concurrent_mae' = Max(max_concurrent_mae, MomentaryTotalAdverseExcursion)
  /\ IF CanOpenNewTrade /\ candle.low <= NextEntryTargetPrice
     THEN LET new_long_position == NewLongPosition(NextEntryTargetPrice)
          IN /\ open_long_positions' = Append(open_long_positions, new_long_position)
             /\ opened' = Append(opened, Key(new_long_position))
             /\ pc' = "open_short"
     ELSE /\ pc' = "next"
          /\ UNCHANGED << open_long_positions, opened >>
  /\ UNCHANGED << t, candle, daily_open_price, current_day, open_short_positions,
                  trades, equity, peak_equity, max_drawdown, todo >>
  /\ UNCHANGED << sigvars, genvars, fnvars >>

\* the paired short of the long just opened
OpenShort ==
  /\ pc = "open_short"
  /\ LET new_original_short_position ==
           NewOriginalShortPosition(Last(open_long_positions).entry_price)
     IN /\ open_short_positions' =
             Append(open_short_positions, new_original_short_position)
        /\ opened' = Append(opened, Key(new_original_short_position))
  /\ pc' = "same_tp_long"
  /\ UNCHANGED << t, candle, daily_open_price, current_day, open_long_positions,
                  trades, equity, peak_equity, max_drawdown, max_concurrent_mae, todo >>
  /\ UNCHANGED << sigvars, genvars, fnvars >>

\* mutant: the immediate close is recorded but the position stays in its list
SameCandleResultKeepsOpen(p, book, hit) ==
  IF hit
  THEN LET rec == ClosedRecord(p, p.tp_price, 0, "CLOSED_TP_SAME_CANDLE")
       IN [ book |-> book, trades |-> Append(trades, rec),
            equity |-> EquityAfter(rec.net_pnl_inr),
            max_drawdown |-> MaxDrawdownAfter(rec.net_pnl_inr),
            peak_equity |-> PeakAfter(rec.net_pnl_inr) ]
  ELSE [ book |-> book, trades |-> trades, equity |-> equity,
         max_drawdown |-> max_drawdown, peak_equity |-> peak_equity ]

\* immediate close of a position opened on this candle; swap is 0.0
SameCandleResult(p, book, hit) ==
  IF hit
  THEN LET rec == ClosedRecord(p, p.tp_price, 0, "CLOSED_TP_SAME_CANDLE")
       IN [ book |-> RemoveFirst(book, p), trades |-> Append(trades, rec),
            equity |-> EquityAfter(rec.net_pnl_inr),
            max_drawdown |-> MaxDrawdownAfter(rec.net_pnl_inr),
            peak_equity |-> PeakAfter(rec.net_pnl_inr) ]
  ELSE [ book |-> book, trades |-> trades, equity |-> equity,
         max_drawdown |-> max_drawdown, peak_equity |-> peak_equity ]

SameCandleLong ==
  /\ pc = "same_tp_long"
  /\ LET new_long_position == Last(open_long_positions)
         r == SameCandleResult(new_long_position, open_long_positions,
                               candle.high >= new_long_position.tp_price)
     IN /\ open_long_positions' = r.book
        /\ trades' = r.trades
        /\ equity' = r.equity
        /\ max_drawdown' = r.max_drawdown
        /\ peak_equity' = r.peak_equity
  /\ pc' = "same_tp_short"
  /\ UNCHANGED << t, candle, daily_open_price, current_day, open_short_positions,
                  max_concurrent_mae, todo, opened >>
  /\ UNCHANGED << sigvars, genvars, fnvars >>

SameCandleShort ==
  /\ pc = "same_tp_short"
  /\ LET new_original_short_position == Last(open_short_positions)
         r == SameCandleResult(new_original_short_position, open_short_positions,
                               candle.low <= new_original_short_position.tp_price)
     IN /\ open_short_positions' = r.book
        /\ trades' = r.trades
        /\ equity' = r.equity
        /\ max_drawdown' = r.max_drawdown
        /\ peak_equity' = r.peak_equity
  /\ pc' = "next"
  /\ UNCHANGED << t, candle, daily_open_price, current_day, open_long_positions,
                  max_concurrent_mae, todo, opened >>
  /\ UNCHANGED << sigvars, genvars, fnvars >>

\* ------------------------------------------------------------------------
\* run_backtest: end of data
\* ------------------------------------------------------------------------
StillOpenRecord(p) ==
  LET gross == Gross(Side(p), p.entry_price, candle.close)
      swap == Swap(Side(p), p)
  IN TradeRecord(p, STILL_OPEN_TIME, candle.close, gross, swap, StillOpenFee,
                 gross + swap, "STILL_OPEN")

RECURSIVE StillOpenRecords(_)
StillOpenRecords(book) ==
  IF book = << >> THEN << >>
  ELSE << StillOpenRecord(Head(book)) >> \o StillOpenRecords(Tail(book))

\* mutant: the empty run reports no balance
EmptyResultZeroEquity ==
  [ trades |-> << >>, equity |-> 0, max_drawdown |-> Zero, max_concurrent_mae |-> 0 ]

\* return [], STARTING_BALANCE_INR, 0.0, 0.0
EmptyResult ==
  [ trades |-> << >>, equity |-> STARTING_BALANCE_INR, max_drawdown |-> Zero,
    max_concurrent_mae |-> 0 ]

\* if df.empty: return at once, before anything else is set up
ReturnEmpty ==
  /\ pc = "next"
  /\ t = 0
  /\ trades' = EmptyResult.trades
  /\ equity' = EmptyResult.equity
  /\ max_drawdown' = EmptyResult.max_drawdown
  /\ max_concurrent_mae' = EmptyResult.max_concurrent_mae
  /\ pc' = "done"
  /\ UNCHANGED << t, candle, daily_open_price, current_day, open_long_positions,
                  open_short_positions, peak_equity, todo, opened >>
  /\ UNCHANGED << sigvars, genvars, fnvars >>

\* mutant: the positions still open are written ahead of the closed records
FinishStillOpenFirst ==
  /\ pc = "next"
  /\ t > 0
  /\ trades' = StillOpenRecords(open_long_positions)
                \o StillOpenRecords(open_short_positions) \o trades
  /\ pc' = "done"
  /\ UNCHANGED << t, candle, daily_open_price, current_day, open_long_positions,
                  open_short_positions, equity, peak_equity, max_drawdown,
                  max_concurrent_mae, todo, opened >>
  /\ UNCHANGED << sigvars, genvars, fnvars >>

\* the loop is over: record what is still open and return
Finish ==
  /\ pc = "next"
  /\ t > 0
  /\ trades' = trades \o StillOpenRecords(open_long_positions)
                      \o StillOpenRecords(open_short_positions)
  /\ pc' = "done"
  /\ UNCHANGED << t, candle, daily_open_price, current_day, open_long_positions,
                  open_short_positions, equity, peak_equity, max_drawdown,
                  max_concurrent_mae, todo, opened >>
  /\ UNCHANGED << sigvars, genvars, fnvars >>

Next ==
  \/ ReturnEmpty
  \/ NextCandle
  \/ Rule90Long
  \/ Rule90Short
  \/ ManageLong
  \/ ManageShort
  \/ Entry
  \/ OpenShort
  \/ SameCandleLong
  \/ SameCandleShort
  \/ Finish

Spec == Init /\ [][Next]_vars

\* The same engine fed the falling one-day series, long enough to reach the
\* concurrency limit.
NextCandleCap ==
  /\ pc = "next"
  /\ t < MaxCapCandles
  /\ ReadCandle(CapCandle(t), 0)

NextCap ==
  \/ ReturnEmpty
  \/ NextCandleCap
  \/ Rule90Long
  \/ Rule90Short
  \/ ManageLong
  \/ ManageShort
  \/ Entry
  \/ OpenShort
  \/ SameCandleLong
  \/ SameCandleShort
  \/ Finish

SpecCap == Init /\ [][NextCap]_vars

\* ------------------------------------------------------------------------
\* Properties of run_backtest
\* ------------------------------------------------------------------------

\* C1: the number of simultaneously open positions (long + short) never
\* exceeds the concurrency limit of 30, at any point of the run.
C1_CapRespected == OpenCount <= MAX_CONCURRENT_TRADES

C1_CapExceeded == OpenCount > MAX_CONCURRENT_TRADES

ClosedStatuses == { "CLOSED_TP", "CLOSED_TP_SAME_CANDLE", "CLOSED_90_DAY_RULE" }

OpenedKeys == { opened[i] : i \in 1..Len(opened) }

RecordsOf(key) == { j \in 1..Len(trades) : Key(trades[j]) = key }

OpenOf(key) ==
  Cardinality({ j \in 1..Len(open_long_positions) : Key(open_long_positions[j]) = key })
  + Cardinality({ j \in 1..Len(open_short_positions) : Key(open_short_positions[j]) = key })

\* C2: every position ever appended to open_long_positions or
\* open_short_positions appears exactly once in the returned trades list, with a
\* closed status or with STILL_OPEN; during the run it is either open or
\* recorded once, never both, and the ledger holds no other record.
C2_LedgerComplete ==
  /\ Cardinality(OpenedKeys) = Len(opened)
  /\ \A j \in 1..Len(trades) :
       /\ Key(trades[j]) \in OpenedKeys
       /\ trades[j].status \in ClosedStatuses \cup { "STILL_OPEN" }
       /\ trades[j].status = "STILL_OPEN" => pc = "done"
  /\ \A j \in 1..Len(open_long_positions) : Key(open_long_positions[j]) \in OpenedKeys
  /\ \A j \in 1..Len(open_short_positions) : Key(open_short_positions[j]) \in OpenedKeys
  /\ \A key \in OpenedKeys :
       IF pc = "done"
       THEN Cardinality(RecordsOf(key)) = 1
       ELSE Cardinality(RecordsOf(key)) + OpenOf(key) = 1

C2_Witness ==
  /\ pc = "done"
  /\ Len(opened) >= 4
  /\ \E j \in 1..Len(trades) : trades[j].status = "STILL_OPEN"
  /\ \E j \in 1..Len(trades) : trades[j].status = "CLOSED_TP"
  /\ \E j \in 1..Len(trades) : trades[j].status = "CLOSED_TP_SAME_CANDLE"

RECURSIVE SumNet(_, _)
SumNet(ledger, statuses) ==
  IF ledger = << >> THEN 0
  ELSE (IF Head(ledger).status \in statuses THEN Head(ledger).net_pnl_inr ELSE 0)
       + SumNet(Tail(ledger), statuses)

\* C3 (as claimed): on return the final equity equals the starting balance
\* plus the sum of net_pnl_inr over all records of the ledger, STILL_OPEN
\* records included.
C3_EquityAllRecords ==
  pc = "done" =>
    equity = STARTING_BALANCE_INR + SumNet(trades, ClosedStatuses \cup { "STILL_OPEN" })

\* C3 (amended): the equity equals the starting balance plus the sum of
\* net_pnl_inr over the records with a closed status; the net P&L of STILL_OPEN
\* records is unrealized and is not part of the returned equity.
C3_EquityClosedRecords ==
  equity = STARTING_BALANCE_INR + SumNet(trades, ClosedStatuses)

C3_Witness ==
  /\ pc = "done"
  /\ \E j \in 1..Len(trades) :
       trades[j].status = "STILL_OPEN" /\ trades[j].net_pnl_inr # 0
  /\ \E j \in 1..Len(trades) : trades[j].status = "CLOSED_90_DAY_RULE"

\* C4 (as claimed): max_drawdown lies in [0, 1] after every equity update.
C4_DrawdownInUnitInterval ==
  /\ max_drawdown[2] > 0
  /\ max_drawdown[1] >= 0
  /\ max_drawdown[1] <= max_drawdown[2]

\* C4 (amended): max_drawdown is never negative, and it lies in [0, 1] as
\* long as the equity has not fallen below zero: an equity update that leaves
\* equity >= 0 never takes max_drawdown from [0, 1] to above 1.
C4_DrawdownNonNegBoundedWhileSolvent ==
  /\ [](max_drawdown[2] > 0 /\ max_drawdown[1] >= 0)
  /\ [][ (max_drawdown[1] <= max_drawdown[2] /\ equity' >= 0)
           => max_drawdown'[1] <= max_drawdown'[2] ]_vars

C4_Witness ==
  /\ max_drawdown[1] > 0
  /\ max_drawdown[1] <= max_drawdown[2]
  /\ equity >= 0
  /\ equity < peak_equity
  /\ peak_equity > STARTING_BALANCE_INR

AllOpen == open_long_positions \o open_short_positions

\* adverse move of the current candle against p, in INR (0 when favourable)
AdverseNow(p) ==
  IF p.trade_type = "LONG"
  THEN (IF candle.low < p.entry_price
        THEN (p.entry_price - candle.low) * PNL_INR_PER_PIP ELSE 0)
  ELSE (IF candle.high > p.entry_price
        THEN (candle.high - p.entry_price) * PNL_INR_PER_PIP ELSE 0)

\* C6: the stored mae_inr of a position is >= 0 from its creation on and never
\* decreases while the position is open; the mae_inr written to its trade
\* record is the value stored at that moment (in the take-profit loop, after
\* that candle's update).
C6_MaeMonotone ==
  /\ [](\A i \in 1..Len(AllOpen) : AllOpen[i].mae_inr >= 0)
  /\ [][ \A i \in 1..Len(AllOpen) :
           LET p == AllOpen[i]
               stored == IF pc \in { "tp_long", "tp_short" } /\ AdverseNow(p) > p.mae_inr
                         THEN AdverseNow(p) ELSE p.mae_inr
           IN /\ \A j \in 1..Len(AllOpen') :
                   Key(AllOpen'[j]) = Key(p) => AllOpen'[j].mae_inr >= p.mae_inr
              /\ \A j \in (Len(trades) + 1)..Len(trades') :
                   Key(trades'[j]) = Key(p) => trades'[j].mae_inr = stored ]_vars

C6_Witness ==
  /\ pc = "done"
  /\ \E j \in 1..Len(trades) :
       /\ trades[j].trade_type = "LONG"
       /\ trades[j].status = "CLOSED_TP"
       /\ trades[j].mae_inr > 0
  /\ \E i \in 1..Len(open_long_positions) :
       /\ open_long_positions[i].mae_inr > AdverseNow(open_long_positions[i])
       /\ open_long_positions[i].entry_time < candle.t

\* mark-to-market P&L of p at the close of the current candle: gross + swap
MarkToMarket(p) ==
  LET days == candle.day - p.entry_day IN
  IF p.trade_type = "LONG"
  THEN (candle.close - p.entry_price) * PNL_INR_PER_PIP + days * SWAP_LONG_INR_PER_NIGHT
  ELSE (p.entry_price - candle.close) * PNL_INR_PER_PIP + days * SWAP_SHORT_INR_PER_NIGHT

\* C7: an open position is closed by the time-limit rule on a candle if and
\* only if (candle date - entry date) > 90 days and its mark-to-market P&L at
\* the candle close is > -5000 INR; it is then closed at the candle close with
\* status CLOSED_90_DAY_RULE, and otherwise the rule leaves it open, unchanged.
C7_TimeLimitRule ==
  [][ /\ (pc \in { "rule90_long", "rule90_short" } /\ todo # << >>) =>
           LET p == Head(todo)
               book == IF pc = "rule90_long" THEN open_long_positions
                       ELSE open_short_positions
               bookAfter == IF pc = "rule90_long" THEN open_long_positions'
                            ELSE open_short_positions'
           IN IF candle.day - p.entry_day > 90 /\ MarkToMarket(p) > -500000
              THEN /\ Len(trades') = Len(trades) + 1
                   /\ Key(trades'[Len(trades')]) = Key(p)
                   /\ trades'[Len(trades')].status = "CLOSED_90_DAY_RULE"
                   /\ trades'[Len(trades')].exit_price = candle.close
                   /\ Len(bookAfter) = Len(book) - 1
                   /\ \A j \in 1..Len(bookAfter) : Key(bookAfter[j]) # Key(p)
              ELSE /\ trades' = trades
                   /\ bookAfter = book
      /\ \A j \in (Len(trades) + 1)..Len(trades') :
           trades'[j].status = "CLOSED_90_DAY_RULE" =>
             pc \in { "rule90_long", "rule90_short" } ]_vars

\* a position closed by the rule at a loss, and another one held for more
\* than 90 days that the rule left open
C7_Witness ==
  /\ \E j \in 1..Len(trades) :
       /\ trades[j].status = "CLOSED_90_DAY_RULE"
       /\ trades[j].net_pnl_inr < 0
       /\ trades[j].net_pnl_inr > -500000
  /\ \E i \in 1..Len(open_long_positions) :
       /\ candle.day - open_long_positions[i].entry_day > 90
       /\ MarkToMarket(open_long_positions[i]) <= -500000
  /\ pc = "tp_long"

\* C10: after the last candle every position still open yields one record
\* with status STILL_OPEN, exit price = last close, swap = days from entry
\* date to last candle date times the per-night rate of its direction, fee 0
\* and net P&L = gross + swap.
C10_StillOpenRecords ==
  pc = "done" =>
    \A i \in 1..Len(AllOpen) :
      LET p == AllOpen[i]
          days == candle.day - p.entry_day
          rate == IF p.trade_type = "LONG" THEN SWAP_LONG_INR_PER_NIGHT
                  ELSE SWAP_SHORT_INR_PER_NIGHT
          gross == IF p.trade_type = "LONG"
                   THEN (candle.close - p.entry_price) * PNL_INR_PER_PIP
                   ELSE (p.entry_price - candle.close) * PNL_INR_PER_PIP
      IN /\ Cardinality(RecordsOf(Key(p))) = 1
         /\ \A j \in RecordsOf(Key(p)) :
              /\ trades[j].status = "STILL_OPEN"
              /\ trades[j].exit_price = candle.close
              /\ trades[j].gross_pnl_inr = gross
              /\ trades[j].swap_charges_inr = days * rate
              /\ trades[j].fees_inr = 0
              /\ trades[j].net_pnl_inr = gross + days * rate
              /\ trades[j].mae_inr = p.mae_inr

C10_Witness ==
  /\ pc = "done"
  /\ Len(open_long_positions) >= 2
  /\ \E i \in 1..Len(open_long_positions) :
       candle.day - open_long_positions[i].entry_day > 0

\* ------------------------------------------------------------------------
\* execute_backtest (backtesting_data_prep.py)
\* ------------------------------------------------------------------------
Abs(x) == IF x < 0 THEN -x ELSE x

SetMax(S) == CHOOSE x \in S : \A y \in S : y <= x
SetMin(S) == CHOOSE x \in S : \A y \in S : x <= y

\* sorted(list(set(s_15m + s_4h))), sorted(list(set(r_15m + r_4h)))
AllSupports(sg) == sg.supports_15m \cup sg.supports_4h
AllResistances(sg) == sg.resistances_15m \cup sg.resistances_4h

SupportsBelow(sg) == { x \in AllSupports(sg) : x < sg.entry_price }
ResistancesAbove(sg) == { x \in AllResistances(sg) : x > sg.entry_price }

\* mutant: a snapshot that fails to parse is read as far as it goes
LevelsParsedAlways(sg) == TRUE

\* json.loads of the four snapshots succeeds (no JSONDecodeError)
LevelsParsed(sg) == sg.parsable

\* mutant: a level equal to the entry price counts as "below"/"above" it
StopLossPriceNotStrict(sg) ==
  LET below == { x \in AllSupports(sg) : x <= sg.entry_price }
      above == { x \in AllResistances(sg) : x >= sg.entry_price }
  IN IF sg.direction = "long"
     THEN (IF below # {} THEN SetMax(below) ELSE 0)
     ELSE IF sg.direction = "short"
     THEN (IF above # {} THEN SetMin(above) ELSE 0)
     ELSE 0

\* stop and target derived from the level snapshot; 0 stands for None
\* mutant: the stop is taken on the side of the target
StopLossPriceTargetSide(sg) ==
  IF sg.direction = "long"
  THEN (IF ResistancesAbove(sg) # {} THEN SetMin(ResistancesAbove(sg)) ELSE 0)
  ELSE IF sg.direction = "short"
  THEN (IF SupportsBelow(sg) # {} THEN SetMax(SupportsBelow(sg)) ELSE 0)
  ELSE 0

StopLossPrice(sg) ==
  IF sg.direction = "long"
  THEN (IF SupportsBelow(sg) # {} THEN SetMax(SupportsBelow(sg)) ELSE 0)
  ELSE IF sg.direction = "short"
  THEN (IF ResistancesAbove(sg) # {} THEN SetMin(ResistancesAbove(sg)) ELSE 0)
  ELSE 0

TakeProfitPrice(sg) ==
  IF sg.direction = "long"
  THEN (IF ResistancesAbove(sg) # {} THEN SetMin(ResistancesAbove(sg)) ELSE 0)
  ELSE IF sg.direction = "short"
  THEN (IF SupportsBelow(sg) # {} THEN SetMax(SupportsBelow(sg)) ELSE 0)
  ELSE 0

\* df_5m.index[df_5m['datetime'] == sig['entry_datetime']]; 0 when not found.
\* The timestamp of row i is i.
EntryIdx(sg) ==
  IF sg.entry_datetime \in 1..Len(df_5m) THEN sg.entry_datetime ELSE 0

\* mutant: a reward equal to the risk is rejected
EntryAcceptedRewardAboveRisk(sg) ==
  /\ StopLossPrice(sg) # 0 /\ TakeProfitPrice(sg) # 0
  /\ Abs(sg.entry_price - StopLossPrice(sg)) >= MIN_SL_DISTANCE_PIPS * PIP_VALUE_XAU_USD
  /\ Abs(TakeProfitPrice(sg) - sg.entry_price) > Abs(sg.entry_price - StopLossPrice(sg))
  /\ EntryIdx(sg) # 0

\* mutant: a signal is also rejected while an earlier trade is open (cap of 1)
EntryAcceptedCapOne(sg) ==
  /\ StopLossPrice(sg) # 0 /\ TakeProfitPrice(sg) # 0
  /\ Abs(sg.entry_price - StopLossPrice(sg)) >= MIN_SL_DISTANCE_PIPS * PIP_VALUE_XAU_USD
  /\ Abs(TakeProfitPrice(sg) - sg.entry_price) >= Abs(sg.entry_price - StopLossPrice(sg))
  /\ EntryIdx(sg) # 0
  /\ \A j \in 1..Len(bt_trades) :
       ~(bt_trades[j].entry_datetime <= sg.entry_datetime
         /\ sg.entry_datetime < bt_trades[j].exit_datetime)

\* the validation cascade of one signal: TRUE when none of the `continue`s is taken
EntryAccepted(sg) ==
  LET stop == StopLossPrice(sg)
      target == TakeProfitPrice(sg)
      risk == Abs(sg.entry_price - stop)
      reward == Abs(target - sg.entry_price)
  IN /\ ~(stop = 0 \/ target = 0)
     /\ ~(Abs(sg.entry_price - stop) < MIN_SL_DISTANCE_PIPS * PIP_VALUE_XAU_USD)
     /\ ~(risk = 0 \/ reward < risk)
     /\ EntryIdx(sg) # 0

NoExit == [ exit_px |-> 0, exit_reason |-> "" ]

\* mutant: the target is tested before the stop
SrExitTargetFirst(sg, stop, target, row) ==
  IF sg.direction = "long"
  THEN (IF row.high >= target THEN [ exit_px |-> target, exit_reason |-> "TP Hit (S/R)" ]
        ELSE IF row.low <= stop THEN [ exit_px |-> stop, exit_reason |-> "SL Hit (S/R)" ]
        ELSE NoExit)
  ELSE IF sg.direction = "short"
  THEN (IF row.low <= target THEN [ exit_px |-> target, exit_reason |-> "TP Hit (S/R)" ]
        ELSE IF row.high >= stop THEN [ exit_px |-> stop, exit_reason |-> "SL Hit (S/R)" ]
        ELSE NoExit)
  ELSE NoExit

\* S/R based SL/TP check on one row
SrExit(sg, stop, target, row) ==
  IF sg.direction = "long"
  THEN (IF row.low <= stop THEN [ exit_px |-> stop, exit_reason |-> "SL Hit (S/R)" ]
        ELSE IF row.high >= target THEN [ exit_px |-> target, exit_reason |-> "TP Hit (S/R)" ]
        ELSE NoExit)
  ELSE IF sg.direction = "short"
  THEN (IF row.high >= stop THEN [ exit_px |-> stop, exit_reason |-> "SL Hit (S/R)" ]
        ELSE IF row.low <= target THEN [ exit_px |-> target, exit_reason |-> "TP Hit (S/R)" ]
        ELSE NoExit)
  ELSE NoExit

\* RSI Crossover Stop (secondary exit) on row `row` with previous row `prev`
RsiExit(sg, row, prev) ==
  IF /\ row.rsi # NaN /\ row.sma_rsi # NaN /\ prev.rsi # NaN /\ prev.sma_rsi # NaN
     /\ \/ (sg.direction = "long" /\ row.rsi < row.sma_rsi /\ prev.rsi >= prev.sma_rsi)
        \/ (sg.direction = "short" /\ row.rsi > row.sma_rsi /\ prev.rsi <= prev.sma_rsi)
  THEN [ exit_px |-> row.close, exit_reason |-> "RSI Crossover Stop" ]
  ELSE NoExit

\* mutant: the RSI crossover stop is tested before the S/R levels
ExitAtReversalFirst(sg, stop, target, kk) ==
  LET rv == RsiExit(sg, df_5m[kk], df_5m[kk - 1])
  IN IF rv.exit_reason # "" THEN rv ELSE SrExit(sg, stop, target, df_5m[kk])

\* one iteration of `for k in range(entry_idx[0] + 1, len(df_5m))`
ExitAt(sg, stop, target, kk) ==
  LET sr == SrExit(sg, stop, target, df_5m[kk])
  IN IF sr.exit_reason # "" THEN sr ELSE RsiExit(sg, df_5m[kk], df_5m[kk - 1])

Pnl(sg, exit_px) ==
  (IF sg.direction = "long" THEN exit_px - sg.entry_price
   ELSE sg.entry_price - exit_px) * TRADE_UNITS

\* mutant: the P&L is not added to the balance
BalanceAfterUnchanged(bal, pnl) == bal

\* balance += pnl
BalanceAfter(bal, pnl) == bal + pnl

TradeOutcome(sg, x, kk) ==
  [ direction      |-> sg.direction,
    entry_datetime |-> sg.entry_datetime,
    entry_price    |-> sg.entry_price,
    exit_datetime  |-> kk,
    exit_price     |-> x.exit_px,
    exit_reason    |-> x.exit_reason,
    pnl            |-> Pnl(sg, x.exit_px),
    account_balance_after_trade |-> BalanceAfter(balance, Pnl(sg, x.exit_px)),
    duration_bars  |-> kk - EntryIdx(sg) ]

\* mutant: the trade is written to the ledger twice
RecordTradeTwice(ledger, trade_outcome) == ledger \o << trade_outcome, trade_outcome >>

\* trades.append(trade_outcome)
RecordTrade(ledger, trade_outcome) == Append(ledger, trade_outcome)

\* the ledger after a scan that ran to the last row without an exit: exit_px
\* is still None, `if exit_px:` fails and nothing is appended
UnexitedTrades(sg) == bt_trades

SignalTimes == 1..MaxBars

InitSig ==
  /\ InitSilver
  /\ GenIdle
  /\ FnIdle
  /\ spc = "sig"
  /\ df_5m \in UNION { [ 1..n -> Bars ] : n \in 0..MaxBars }
  /\ n_sig = 0
  /\ sig = NoSignal
  /\ stop_loss_price = 0
  /\ take_profit_price = 0
  /\ k = 0
  /\ bt_trades = << >>
  /\ balance = INITIAL_BALANCE

\* for sig in signals: level parsing, stop/target derivation and validation.
\* The signals come in the order generate_trading_signals emits them, one per
\* crossing bar, so their entry times are strictly increasing.
NextSignal ==
  /\ spc = "sig"
  /\ n_sig < MaxSignals
  /\ \E shape \in SignalShapes, at \in { x \in SignalTimes : x > sig.entry_datetime } :
       LET sg == [ direction |-> shape.direction, entry_datetime |-> at,
                   entry_price |-> SignalEntryPrice,
                   supports_15m |-> shape.supports_15m,
                   supports_4h |-> shape.supports_4h,
                   resistances_15m |-> shape.resistances_15m,
                   resistances_4h |-> shape.resistances_4h,
                   parsable |-> shape.parsable ]
       IN /\ sig' = sg
          /\ n_sig' = n_sig + 1
          /\ IF ~LevelsParsed(sg)
             THEN /\ spc' = "sig"
                  /\ UNCHANGED << stop_loss_price, take_profit_price, k >>
             ELSE /\ stop_loss_price' = StopLossPrice(sg)
                  /\ take_profit_price' = TakeProfitPrice(sg)
                  /\ IF EntryAccepted(sg)
                     THEN spc' = "scan" /\ k' = EntryIdx(sg) + 1
                     ELSE spc' = "sig" /\ k' = k
  /\ UNCHANGED << df_5m, bt_trades, balance >>
  /\ UNCHANGED << silvervars, genvars, fnvars >>

\* one row of the exit scan; after the scan, `if exit_px:` records the trade
ScanBar ==
  /\ spc = "scan"
  /\ IF k > Len(df_5m)
     THEN /\ spc' = "sig"
          /\ bt_trades' = UnexitedTrades(sig)
          /\ UNCHANGED << k, balance >>
     ELSE LET x == ExitAt(sig, stop_loss_price, take_profit_price, k)
          IN IF x.exit_reason # ""
             THEN /\ spc' = "sig"
                  /\ k' = k
                  /\ IF x.exit_px # 0
                     THEN /\ balance' = BalanceAfter(balance, Pnl(sig, x.exit_px))
                          /\ bt_trades' = RecordTrade(bt_trades, TradeOutcome(sig, x, k))
                     ELSE UNCHANGED << bt_trades, balance >>
             ELSE /\ k' = k + 1
                  /\ UNCHANGED << spc, bt_trades, balance >>
  /\ UNCHANGED << df_5m, n_sig, sig, stop_loss_price, take_profit_price >>
  /\ UNCHANGED << silvervars, genvars, fnvars >>

\* return trades, balance
ReturnTrades ==
  /\ spc = "sig"
  /\ spc' = "done"
  /\ UNCHANGED << df_5m, n_sig, sig, stop_loss_price, take_profit_price, k,
                  bt_trades, balance >>
  /\ UNCHANGED << silvervars, genvars, fnvars >>

NextSig ==
  \/ NextSignal
  \/ ScanBar
  \/ ReturnTrades

SpecSig == InitSig /\ [][NextSig]_vars

\* ------------------------------------------------------------------------
\* Properties of execute_backtest
\* ------------------------------------------------------------------------
BtLast == bt_trades[Len(bt_trades)]

StopBreached(sg, stop, row) ==
  IF sg.direction = "long" THEN row.low <= stop ELSE row.high >= stop

TargetBreached(sg, target, row) ==
  IF sg.direction = "long" THEN row.high >= target ELSE row.low <= target

\* C5: on a candle after the entry bar on which both the stop and the target
\* of the open position are breached, the trade is recorded as a stop hit at
\* the stop price, never as a target hit.
C5_StopBeforeTarget ==
  [][ ( /\ spc = "scan"
        /\ k <= Len(df_5m)
        /\ StopBreached(sig, stop_loss_price, df_5m[k])
        /\ TargetBreached(sig, take_profit_price, df_5m[k]) )
      => /\ Len(bt_trades') = Len(bt_trades) + 1
         /\ bt_trades'[Len(bt_trades')].exit_reason = "SL Hit (S/R)"
         /\ bt_trades'[Len(bt_trades')].exit_price = stop_loss_price
         /\ bt_trades'[Len(bt_trades')].exit_datetime = k
         /\ bt_trades'[Len(bt_trades')].entry_datetime = sig.entry_datetime ]_vars

C5_Witness ==
  /\ spc = "sig"
  /\ bt_trades # << >>
  /\ BtLast.entry_datetime = sig.entry_datetime
  /\ BtLast.direction = sig.direction
  /\ BtLast.exit_reason = "SL Hit (S/R)"
  /\ BtLast.exit_datetime > sig.entry_datetime + 1
  /\ StopBreached(sig, stop_loss_price, df_5m[BtLast.exit_datetime])
  /\ TargetBreached(sig, take_profit_price, df_5m[BtLast.exit_datetime])

\* the entry checks of a signal, stated on the derived stop and target
PassesEntryChecks(sg, stop, target) ==
  /\ sg.parsable
  /\ stop # 0
  /\ target # 0
  /\ Abs(sg.entry_price - stop) >= 10
  /\ Abs(target - sg.entry_price) >= Abs(sg.entry_price - stop)
  /\ sg.entry_datetime \in 1..Len(df_5m)

C9_AcceptedSignalRecorded ==
  ( /\ spc = "sig"
    /\ n_sig >= 1
    /\ PassesEntryChecks(sig, stop_loss_price, take_profit_price) )
  => /\ bt_trades # << >>
     /\ BtLast.entry_datetime = sig.entry_datetime
     /\ BtLast.direction = sig.direction


\* ------------------------------------------------------------------------
\* Properties of run_backtest (records, ordering of exits and entries)
\* ------------------------------------------------------------------------
DirectionSign(r) == IF r.trade_type = "LONG" THEN 1 ELSE -1

\* C11: every ledger record has net = gross + swap - fees, with fees equal to
\* the flat round-trip fee for a closed status and 0 for STILL_OPEN, and gross
\* = (exit - entry) * direction sign / POINT_VALUE * PNL_INR_PER_PIP.
C11_RecordArithmetic ==
  \A i \in 1..Len(trades) :
    LET r == trades[i] IN
    /\ r.net_pnl_inr = r.gross_pnl_inr + r.swap_charges_inr - r.fees_inr
    /\ r.status \in { "CLOSED_TP", "CLOSED_TP_SAME_CANDLE", "CLOSED_90_DAY_RULE", "STILL_OPEN" }
    /\ r.fees_inr = (IF r.status = "STILL_OPEN" THEN 0 ELSE FEE_INR_PER_TRADE)
    /\ r.gross_pnl_inr * POINT_VALUE
         = (r.exit_price - r.entry_price) * DirectionSign(r) * PNL_INR_PER_PIP

\* a returned ledger with a closed long that paid swap, a short and a
\* still-open record
C11_Witness ==
  /\ pc = "done"
  /\ \E i \in 1..Len(trades) :
       /\ trades[i].trade_type = "LONG"
       /\ trades[i].status = "CLOSED_TP"
       /\ trades[i].swap_charges_inr < 0
  /\ \E i \in 1..Len(trades) : trades[i].trade_type = "SHORT_ORIG"
  /\ \E i \in 1..Len(trades) :
       trades[i].status = "STILL_OPEN" /\ trades[i].swap_charges_inr < 0

\* days between the entry date of p and the date of the current candle
HeldDays(p) == IF candle.day < p.entry_day THEN 0 ELSE candle.day - p.entry_day

\* p meets an exit condition (time limit or take-profit) on the current candle
ExitDue(p) ==
  IF p.trade_type = "LONG"
  THEN \/ candle.high >= p.entry_price + 50
       \/ /\ HeldDays(p) > 90
          /\ (candle.close - p.entry_price) * 4400 + HeldDays(p) * (-1997) > -500000
  ELSE \/ candle.low <= p.tp_price
       \/ /\ HeldDays(p) > 90
          /\ (p.entry_price - candle.close) * 4400 > -500000

\* the entry trigger computed from the longs that are open now
SurvivorsOfToday ==
  { i \in 1..Len(open_long_positions) :
      open_long_positions[i].daily_open_ref = daily_open_price }

TriggerFromSurvivors ==
  IF SurvivorsOfToday = {} THEN (daily_open_price * 995) \div 1000
  ELSE LET latest == CHOOSE i \in SurvivorsOfToday : \A j \in SurvivorsOfToday :
                       open_long_positions[j].entry_time <= open_long_positions[i].entry_time
       IN open_long_positions[latest].entry_price - 50

\* C12: on every candle all exits are evaluated before the entry: the entry
\* step is reached only from the end of the last exit loop, no position
\* open at the entry step still meets an exit condition of that candle, and
\* the concurrency check and the entry trigger are computed from the
\* positions that survived the exits.
C12_ExitsBeforeEntry ==
  /\ [](pc = "entry" =>
          /\ \A i \in 1..Len(open_long_positions) : ~ExitDue(open_long_positions[i])
          /\ \A i \in 1..Len(open_short_positions) : ~ExitDue(open_short_positions[i]))
  /\ [][ pc' = "entry" => (pc = "tp_short" /\ todo = << >>) ]_vars
  /\ [][ pc = "entry" =>
           ( Len(open_long_positions') = Len(open_long_positions) + 1
             <=> ( /\ Len(open_long_positions) + Len(open_short_positions) < 30
                   /\ candle.low <= TriggerFromSurvivors ) ) ]_vars
  /\ [][ (pc = "entry" /\ Len(open_long_positions') = Len(open_long_positions) + 1)
           => open_long_positions'[Len(open_long_positions')].entry_price
                = TriggerFromSurvivors ]_vars

\* a long left by take-profit on this candle, and the entry of the same
\* candle was taken at the first-entry trigger of the day again
C12_Witness ==
  /\ pc = "open_short"
  /\ \E i \in 1..Len(trades) :
       /\ trades[i].status = "CLOSED_TP"
       /\ trades[i].exit_time = candle.t
       /\ trades[i].entry_price = Last(open_long_positions).entry_price
  /\ Last(open_long_positions).entry_time = candle.t
  /\ Last(open_long_positions).daily_open_ref = daily_open_price
  /\ Last(open_long_positions).entry_price = (daily_open_price * 995) \div 1000

\* a long meets both the time-limit condition and its take-profit on the
\* current candle
BothExitsDue(p) ==
  /\ p.trade_type = "LONG"
  /\ candle.high >= p.entry_price + 50
  /\ HeldDays(p) > 90
  /\ (candle.close - p.entry_price) * 4400 + HeldDays(p) * (-1997) > -500000

ExitLoopStep == pc \in { "rule90_long", "tp_long" } /\ todo # << >>

\* C13 (as claimed): on a candle where a position meets both the time-limit
\* condition and its take-profit, the record written for it is a take-profit
\* exit at the target price.
C13_TargetBeforeTimeLimit ==
  [][ ( /\ ExitLoopStep
        /\ BothExitsDue(Head(todo))
        /\ Len(trades') = Len(trades) + 1 )
      => /\ trades'[Len(trades')].status = "CLOSED_TP"
         /\ trades'[Len(trades')].exit_price = Head(todo).entry_price + 50 ]_vars

\* C13 (amended): the time-limit rule is evaluated before the take-profit: a
\* position meeting both on a candle is closed by the time-limit loop, at the
\* candle close with status CLOSED_90_DAY_RULE, and never reaches the
\* take-profit loop; a position is recorded at most once.
C13_TimeLimitBeforeTarget ==
  /\ [][ ( pc = "rule90_long" /\ todo # << >> /\ BothExitsDue(Head(todo)) )
         => /\ Len(trades') = Len(trades) + 1
            /\ trades'[Len(trades')].status = "CLOSED_90_DAY_RULE"
            /\ trades'[Len(trades')].exit_price = candle.close
            /\ trades'[Len(trades')].exit_time = candle.t
            /\ trades'[Len(trades')].entry_time = Head(todo).entry_time
            /\ Len(open_long_positions') = Len(open_long_positions) - 1 ]_vars
  /\ [](pc = "tp_long" => \A i \in 1..Len(todo) : ~BothExitsDue(todo[i]))
  /\ [](\A i \in 1..Len(trades) : \A j \in 1..Len(trades) :
          ( /\ i # j
            /\ trades[i].trade_type = trades[j].trade_type
            /\ trades[i].entry_time = trades[j].entry_time ) => FALSE)

\* a long just closed by the time-limit rule on a candle whose high reaches
\* its take-profit
C13_Witness ==
  /\ pc = "rule90_long"
  /\ trades # << >>
  /\ Last(trades).status = "CLOSED_90_DAY_RULE"
  /\ Last(trades).trade_type = "LONG"
  /\ Last(trades).exit_time = candle.t
  /\ candle.high >= Last(trades).entry_price + 50
  /\ Last(trades).exit_price < Last(trades).entry_price + 50

\* ------------------------------------------------------------------------
\* Properties of execute_backtest (exit order, entry checks, levels)
\* ------------------------------------------------------------------------
Defined(x) == x # -1

\* the oscillator crosses back against a position of direction dir on row kk
ReverseCross(dir, kk) ==
  /\ Defined(df_5m[kk].rsi) /\ Defined(df_5m[kk].sma_rsi)
  /\ Defined(df_5m[kk - 1].rsi) /\ Defined(df_5m[kk - 1].sma_rsi)
  /\ IF dir = "long"
     THEN df_5m[kk].rsi < df_5m[kk].sma_rsi /\ df_5m[kk - 1].rsi >= df_5m[kk - 1].sma_rsi
     ELSE df_5m[kk].rsi > df_5m[kk].sma_rsi /\ df_5m[kk - 1].rsi <= df_5m[kk - 1].sma_rsi

\* C14: on each candle after the entry bar at most one exit fires, in the
\* order stop, target, reversal: a breached stop is recorded at the stop
\* price, else a breached target at the target price, else a reverse cross at
\* the candle close; a breach on a candle with a reverse cross is recorded as
\* the stop/target exit.
C14_ExitOrder ==
  [][ (spc = "scan" /\ k <= Len(df_5m)) =>
        LET row == df_5m[k]
            n == Len(bt_trades')
        IN /\ Len(bt_trades') <= Len(bt_trades) + 1
           /\ IF StopBreached(sig, stop_loss_price, row)
              THEN /\ n = Len(bt_trades) + 1
                   /\ bt_trades'[n].exit_reason = "SL Hit (S/R)"
                   /\ bt_trades'[n].exit_price = stop_loss_price
                   /\ bt_trades'[n].exit_datetime = k
              ELSE IF TargetBreached(sig, take_profit_price, row)
              THEN /\ n = Len(bt_trades) + 1
                   /\ bt_trades'[n].exit_reason = "TP Hit (S/R)"
                   /\ bt_trades'[n].exit_price = take_profit_price
                   /\ bt_trades'[n].exit_datetime = k
              ELSE IF ReverseCross(sig.direction, k)
              THEN /\ n = Len(bt_trades) + 1
                   /\ bt_trades'[n].exit_reason = "RSI Crossover Stop"
                   /\ bt_trades'[n].exit_price = row.close
                   /\ bt_trades'[n].exit_datetime = k
              ELSE bt_trades' = bt_trades /\ k' = k + 1 /\ spc' = "scan" ]_vars

\* a ledger with a reversal exit at the close, and a stop/target exit taken
\* on a candle that also carries a reverse cross
C14_Witness ==
  /\ \E i \in 1..Len(bt_trades) :
       /\ bt_trades[i].exit_reason = "RSI Crossover Stop"
       /\ bt_trades[i].exit_price = df_5m[bt_trades[i].exit_datetime].close
  /\ \E i \in 1..Len(bt_trades) :
       /\ bt_trades[i].exit_reason \in { "SL Hit (S/R)", "TP Hit (S/R)" }
       /\ ReverseCross(bt_trades[i].direction, bt_trades[i].exit_datetime)

\* the three entry conditions on the stop and target derived from the
\* parsed snapshots
LevelsAccepted(sg, stop, target) ==
  /\ sg.parsable
  /\ stop # 0
  /\ target # 0
  /\ Abs(sg.entry_price - stop) >= 10
  /\ Abs(target - sg.entry_price) >= Abs(sg.entry_price - stop)

\* C15: a signal (whose entry bar is in the series, as for every signal
\* generated from it) opens a position if and only if a stop and a target
\* were derived, |entry - stop| >= the minimum stop distance and
\* |target - entry| >= |entry - stop|; every trade appended to the ledger
\* satisfies these conditions.
C15_EntryChecks ==
  /\ [][ ( /\ spc = "sig"
           /\ n_sig' = n_sig + 1
           /\ sig'.entry_datetime \in 1..Len(df_5m) )
         => ( spc' = "scan"
              <=> LevelsAccepted(sig', stop_loss_price', take_profit_price') ) ]_vars
  /\ [][ Len(bt_trades') = Len(bt_trades) + 1
         => /\ LevelsAccepted(sig, stop_loss_price, take_profit_price)
            /\ bt_trades'[Len(bt_trades')].entry_datetime = sig.entry_datetime
            /\ bt_trades'[Len(bt_trades')].entry_price = sig.entry_price
            /\ bt_trades'[Len(bt_trades')].direction = sig.direction ]_vars

\* a recorded trade whose reward equals its risk
C15_Witness ==
  /\ spc = "sig"
  /\ n_sig = 2
  /\ Len(bt_trades) = 1
  /\ bt_trades[1].entry_datetime = sig.entry_datetime
  /\ Abs(take_profit_price - sig.entry_price) = Abs(sig.entry_price - stop_loss_price)
  /\ stop_loss_price # 0

\* lv is the nearest level of the set S strictly below (side = -1) or
\* strictly above (side = 1) the price px; 0 when S has no such level
NearestBeyond(lv, S, px, side) ==
  LET beyond == IF side = 1 THEN { x \in S : x > px } ELSE { x \in S : x < px }
  IN IF beyond = {} THEN lv = 0
     ELSE /\ lv \in beyond
          /\ \A x \in beyond : IF side = 1 THEN lv <= x ELSE lv >= x

\* C16: for a long the stop is the greatest support strictly below the entry
\* price and the target the least resistance strictly above it; for a short
\* the stop is the least resistance strictly above and the target the
\* greatest support strictly below; the levels are the union of the
\* 15-minute and 4-hour snapshots of the signal.
C16_NearestLevels ==
  [][ (spc = "sig" /\ n_sig' = n_sig + 1 /\ sig'.parsable) =>
        LET supports == sig'.supports_15m \cup sig'.supports_4h
            resistances == sig'.resistances_15m \cup sig'.resistances_4h
        IN IF sig'.direction = "long"
           THEN /\ NearestBeyond(stop_loss_price', supports, sig'.entry_price, -1)
                /\ NearestBeyond(take_profit_price', resistances, sig'.entry_price, 1)
           ELSE /\ NearestBeyond(stop_loss_price', resistances, sig'.entry_price, 1)
                /\ NearestBeyond(take_profit_price', supports, sig'.entry_price, -1) ]_vars

\* a signal whose snapshots hold levels on both sides of the entry price and
\* at the entry price itself, with both levels derived
C16_Witness ==
  /\ n_sig >= 1
  /\ stop_loss_price # 0
  /\ take_profit_price # 0
  /\ sig.entry_price \in sig.supports_15m \cup sig.supports_4h
  /\ \E x \in sig.supports_15m \cup sig.supports_4h : x > sig.entry_price
  /\ \E x \in sig.resistances_15m \cup sig.resistances_4h : x < sig.entry_price
  /\ stop_loss_price \in sig.supports_15m
  /\ \E x \in sig.supports_4h : x < stop_loss_price

\* ------------------------------------------------------------------------
\* Properties of run_backtest (same-candle close, paired short)
\* ------------------------------------------------------------------------
\* the favourable extreme of the current candle reaches the take-profit of p
TpReachedNow(p) ==
  IF p.trade_type = "LONG" THEN candle.high >= p.tp_price
  ELSE candle.low <= p.tp_price

\* the step from state to state' closes p, opened on this candle, at once
ClosedAtOnce(p, book, book_after) ==
  LET n == Len(trades')
      gross == (IF p.trade_type = "LONG" THEN p.tp_price - p.entry_price
                ELSE p.entry_price - p.tp_price) * 4400
  IN /\ n = Len(trades) + 1
     /\ trades'[n].trade_type = p.trade_type
     /\ trades'[n].status = "CLOSED_TP_SAME_CANDLE"
     /\ trades'[n].entry_time = candle.t
     /\ trades'[n].exit_time = trades'[n].entry_time
     /\ trades'[n].exit_price = p.tp_price
     /\ trades'[n].swap_charges_inr = 0
     /\ trades'[n].fees_inr = 8874
     /\ trades'[n].net_pnl_inr = gross - 8874
     /\ equity' = equity + gross - 8874
     /\ Len(book_after) = Len(book) - 1
     /\ \A i \in 1..Len(book_after) : book_after[i] # p

\* C17: a long, or its paired short, opened on a candle whose favourable
\* extreme already reaches its take-profit is closed on that candle at the
\* take-profit price with status CLOSED_TP_SAME_CANDLE, exit_time =
\* entry_time, zero swap and one fee; it was opened after the concurrency
\* check passed, it is not open at the end of the candle and its P&L is
\* added to equity once.
C17_SameCandleClose ==
  /\ [][ pc = "same_tp_long" =>
           LET p == open_long_positions[Len(open_long_positions)]
           IN IF TpReachedNow(p)
              THEN ClosedAtOnce(p, open_long_positions, open_long_positions')
              ELSE trades' = trades /\ equity' = equity
                   /\ open_long_positions' = open_long_positions ]_vars
  /\ [][ pc = "same_tp_short" =>
           LET p == open_short_positions[Len(open_short_positions)]
           IN IF TpReachedNow(p)
              THEN ClosedAtOnce(p, open_short_positions, open_short_positions')
              ELSE trades' = trades /\ equity' = equity
                   /\ open_short_positions' = open_short_positions ]_vars
  /\ [][ (pc = "entry" /\ pc' = "open_short")
           => Len(open_long_positions) + Len(open_short_positions) < 30 ]_vars
  /\ [](pc = "next" =>
          /\ \A i \in 1..Len(open_long_positions) :
               open_long_positions[i].entry_time = candle.t
                 => ~TpReachedNow(open_long_positions[i])
          /\ \A i \in 1..Len(open_short_positions) :
               open_short_positions[i].entry_time = candle.t
                 => ~TpReachedNow(open_short_positions[i]))

\* the candle ended with the long and its paired short both closed at once
C17_Witness ==
  /\ pc = "next"
  /\ Len(trades) >= 2
  /\ trades[Len(trades)].trade_type = "SHORT_ORIG"
  /\ trades[Len(trades)].status = "CLOSED_TP_SAME_CANDLE"
  /\ trades[Len(trades)].exit_time = candle.t
  /\ trades[Len(trades) - 1].trade_type = "LONG"
  /\ trades[Len(trades) - 1].status = "CLOSED_TP_SAME_CANDLE"
  /\ trades[Len(trades) - 1].exit_time = candle.t

RecordsOfType(type) == { i \in 1..Len(trades) : trades[i].trade_type = type }

\* the SHORT_ORIG records paired with the LONG record i
PairedShorts(i) ==
  { j \in RecordsOfType("SHORT_ORIG") : trades[j].entry_time = trades[i].entry_time }

\* C18: every long opened is accompanied on the same candle by exactly one
\* paired short of type SHORT_ORIG with the same entry_time, entry price =
\* long entry + 2.00 and take-profit = its own entry - 1.00; the short leaves
\* by its own take-profit whatever happens to the long; the returned ledger
\* holds equally many LONG and SHORT_ORIG records.
C18_PairedShort ==
  /\ [][ pc = "entry" => (Len(open_long_positions') = Len(open_long_positions) + 1
                           <=> pc' = "open_short") ]_vars
  /\ [][ pc = "open_short" =>
           LET long == open_long_positions[Len(open_long_positions)]
               n == Len(open_short_positions')
           IN /\ n = Len(open_short_positions) + 1
              /\ open_long_positions' = open_long_positions
              /\ open_short_positions'[n].trade_type = "SHORT_ORIG"
              /\ open_short_positions'[n].entry_time = long.entry_time
              /\ long.entry_time = candle.t
              /\ open_short_positions'[n].entry_price = long.entry_price + 200
              /\ open_short_positions'[n].tp_price
                   = open_short_positions'[n].entry_price - 100 ]_vars
  /\ [][ Len(open_short_positions') > Len(open_short_positions) => pc = "open_short" ]_vars
  /\ [](pc = "done" =>
          /\ Cardinality(RecordsOfType("LONG")) = Cardinality(RecordsOfType("SHORT_ORIG"))
          /\ RecordsOfType("LONG") \cup RecordsOfType("SHORT_ORIG") = 1..Len(trades)
          /\ \A i \in RecordsOfType("LONG") :
               /\ Cardinality(PairedShorts(i)) = 1
               /\ \A j \in PairedShorts(i) :
                    /\ trades[j].entry_price = trades[i].entry_price + 200
                    /\ trades[j].status # "STILL_OPEN"
                       => trades[j].exit_price = trades[j].entry_price - 100)

\* a returned ledger in which a long is still open while its paired short
\* was closed by its own take-profit, next to a pair closed together
C18_Witness ==
  /\ pc = "done"
  /\ \E i \in RecordsOfType("LONG") :
       /\ trades[i].status = "STILL_OPEN"
       /\ \E j \in PairedShorts(i) : trades[j].status = "CLOSED_TP_SAME_CANDLE"
  /\ \E i \in RecordsOfType("LONG") :
       /\ trades[i].status = "CLOSED_TP_SAME_CANDLE"
       /\ \E j \in PairedShorts(i) : trades[j].status = "CLOSED_TP_SAME_CANDLE"

\* the levels of a signal as the claim reads them: 0 when there is none
LevelBelow(S, px) ==
  IF { x \in S : x < px } = {} THEN 0
  ELSE CHOOSE x \in S : x < px /\ \A y \in S : y < px => y <= x

LevelAbove(S, px) ==
  IF { x \in S : x > px } = {} THEN 0
  ELSE CHOOSE x \in S : x > px /\ \A y \in S : y > px => x <= y

\* sg is turned down by one of the five rejection reasons
Rejected(sg) ==
  LET supports == sg.supports_15m \cup sg.supports_4h
      resistances == sg.resistances_15m \cup sg.resistances_4h
      stop == IF sg.direction = "long" THEN LevelBelow(supports, sg.entry_price)
              ELSE LevelAbove(resistances, sg.entry_price)
      target == IF sg.direction = "long" THEN LevelAbove(resistances, sg.entry_price)
                ELSE LevelBelow(supports, sg.entry_price)
  IN \/ ~sg.parsable
     \/ stop = 0
     \/ target = 0
     \/ Abs(sg.entry_price - stop) < 10
     \/ Abs(target - sg.entry_price) < Abs(sg.entry_price - stop)
     \/ sg.entry_datetime \notin 1..Len(df_5m)

\* C19: a rejected signal (no stop or target level, stop too close, reward <
\* risk, entry bar not found, or unparsable level snapshot) raises no error
\* and leaves the running balance and the ledger exactly as they were: the
\* loop goes on to the next signal.
C19_RejectionLeavesNoTrace ==
  [][ (spc = "sig" /\ n_sig' = n_sig + 1 /\ Rejected(sig'))
      => /\ bt_trades' = bt_trades
         /\ balance' = balance
         /\ spc' = "sig"
         /\ df_5m' = df_5m ]_vars

\* a signal with an unparsable snapshot was turned down after a trade had
\* been recorded
C19_Witness ==
  /\ spc = "sig"
  /\ n_sig = 2
  /\ ~sig.parsable
  /\ sig.entry_datetime \in 1..Len(df_5m)
  /\ Len(bt_trades) = 1
  /\ bt_trades[1].entry_datetime < sig.entry_datetime
  /\ balance = bt_trades[1].account_balance_after_trade
  /\ balance # INITIAL_BALANCE

\* ------------------------------------------------------------------------
\* generate_trading_signals
\* ------------------------------------------------------------------------
IsNa(x) == x = NaN

\* df_5m[sma_col].first_valid_index(), as a 1-based position; 0 stands for None
FirstValidIndex ==
  LET valid == { i \in 1..Len(gen_df) : ~IsNa(gen_df[i].sma_rsi) }
  IN IF valid = {} THEN 0 ELSE CHOOSE i \in valid : \A j \in valid : i <= j

\* is_valid_trading_time: the time of day lies in some window, ends included
IsValidTradingTimeOpenEnd(t_utc) ==
  \E w \in TRADING_WINDOWS_UTC : w[1] <= t_utc /\ t_utc < w[2]

IsValidTradingTime(t_utc) ==
  \E w \in TRADING_WINDOWS_UTC : w[1] <= t_utc /\ t_utc <= w[2]

\* the NaN test that skips a bar
AnyUndefined(curr, prev) ==
  \/ IsNa(curr.rsi) \/ IsNa(prev.rsi)
  \/ IsNa(curr.sma_rsi) \/ IsNa(prev.sma_rsi)
  \/ IsNa(curr.atr)

IsLongCross(curr, prev) == curr.rsi > curr.sma_rsi /\ prev.rsi <= prev.sma_rsi
IsShortCross(curr, prev) == curr.rsi < curr.sma_rsi /\ prev.rsi >= prev.sma_rsi

\* mutant: the oscillator thresholds are not applied
PassesRsiFiltNoThreshold(curr, prev) ==
  IsLongCross(curr, prev) \/ IsShortCross(curr, prev)

PassesRsiFilt(curr, prev) ==
  \/ (IsLongCross(curr, prev) /\ curr.rsi < OPTIMIZED_RSI_LONG_THRESHOLD)
  \/ (IsShortCross(curr, prev) /\ curr.rsi > OPTIMIZED_RSI_SHORT_THRESHOLD)

\* mutant: a candle with close = open confirms either direction
DirectionDojiConfirms(curr, prev, confirm_candle) ==
  IF IsLongCross(curr, prev) /\ confirm_candle.close >= confirm_candle.open THEN "long"
  ELSE IF IsShortCross(curr, prev) /\ confirm_candle.close <= confirm_candle.open THEN "short"
  ELSE ""

\* direction confirmed by the next candle; "" when it is not
Direction(curr, prev, confirm_candle) ==
  IF IsLongCross(curr, prev) /\ confirm_candle.close > confirm_candle.open THEN "long"
  ELSE IF IsShortCross(curr, prev) /\ confirm_candle.close < confirm_candle.open THEN "short"
  ELSE ""

\* dist < near_thresh, with near_thresh = entry_px * 0.001 when atr is
\* undefined or zero and atr * SR_NEARNESS_FACTOR_ATR_MULTIPLE (0.5) otherwise
WithinNearThresh(dist, entry_px, atr_val) ==
  IF IsNa(atr_val) \/ atr_val = 0 THEN dist * 1000 < entry_px
  ELSE dist * 2 < atr_val

\* mutant: only the 15-minute levels are looked at
BlockedOnly15m(direction, entry_px, curr) ==
  IF direction = "long"
  THEN \E r_lvl \in curr.r_15m :
         entry_px < r_lvl /\ WithinNearThresh(r_lvl - entry_px, entry_px, curr.atr)
  ELSE IF direction = "short"
  THEN \E s_lvl \in curr.s_15m :
         entry_px > s_lvl /\ WithinNearThresh(entry_px - s_lvl, entry_px, curr.atr)
  ELSE FALSE

Blocked(direction, entry_px, curr) ==
  IF direction = "long"
  THEN \E r_lvl \in curr.r_4h \cup curr.r_15m :
         entry_px < r_lvl /\ WithinNearThresh(r_lvl - entry_px, entry_px, curr.atr)
  ELSE IF direction = "short"
  THEN \E s_lvl \in curr.s_4h \cup curr.s_15m :
         entry_px > s_lvl /\ WithinNearThresh(entry_px - s_lvl, entry_px, curr.atr)
  ELSE FALSE

\* does the iteration for bar i reach signals.append?
EmitsSignal(i) ==
  LET curr == gen_df[i]
      prev == gen_df[i - 1]
      confirm_candle == gen_df[i + 1]
      direction == Direction(curr, prev, confirm_candle)
  IN /\ ~AnyUndefined(curr, prev)
     /\ PassesRsiFilt(curr, prev)
     /\ IsValidTradingTime(curr.tod)
     /\ direction # ""
     /\ curr.trend = "down"
     /\ ~Blocked(direction, confirm_candle.close, curr)

\* the signal appended for crossing bar i; the timestamp of row i is i
NewSignal(i) ==
  LET curr == gen_df[i]
      confirm_candle == gen_df[i + 1]
  IN [ direction |-> Direction(curr, gen_df[i - 1], confirm_candle),
       crossover_candle_index |-> i,
       crossover_candle_datetime |-> i,
       entry_datetime |-> i + 1,
       entry_price |-> confirm_candle.close,
       rsi |-> curr.rsi, sma_rsi |-> curr.sma_rsi, atr |-> curr.atr,
       trend_15min_at_signal |-> curr.trend,
       supports_15m_at_signal |-> curr.s_15m,
       resistances_15m_at_signal |-> curr.r_15m,
       supports_4h_at_signal |-> curr.s_4h,
       resistances_4h_at_signal |-> curr.r_4h ]

\* mutant: the new signal is put in front of the list
SignalsPrepend(list, sg) == << sg >> \o list

\* signals.append(...)
SignalsAppend(list, sg) == Append(list, sg)

InitGen ==
  /\ InitSilver
  /\ SigIdle
  /\ FnIdle
  /\ gpc = "start"
  /\ gen_df \in UNION { [ 1..n -> GenBars ] : n \in 0..MaxGenBars }
  /\ gi = 0
  /\ signals = << >>

\* valid_idx = first_valid_index(); return at once when there is none;
\* otherwise the loop starts at max(1, valid_idx) (0-based)
GenStart ==
  /\ gpc = "start"
  /\ IF FirstValidIndex = 0
     THEN gpc' = "done" /\ gi' = gi
     ELSE gpc' = "loop" /\ gi' = Max(2, FirstValidIndex)
  /\ UNCHANGED << gen_df, signals >>
  /\ UNCHANGED << silvervars, sigvars, fnvars >>

\* one iteration of `for i in range(max(1, valid_idx), len(df_5m) - 1)`
GenBar ==
  /\ gpc = "loop"
  /\ gi <= Len(gen_df) - 1
  /\ signals' = IF EmitsSignal(gi) THEN SignalsAppend(signals, NewSignal(gi)) ELSE signals
  /\ gi' = gi + 1
  /\ UNCHANGED << gpc, gen_df >>
  /\ UNCHANGED << silvervars, sigvars, fnvars >>

\* return signals
GenReturn ==
  /\ gpc = "loop"
  /\ gi > Len(gen_df) - 1
  /\ gpc' = "done"
  /\ UNCHANGED << gen_df, gi, signals >>
  /\ UNCHANGED << silvervars, sigvars, fnvars >>

NextGen ==
  \/ GenStart
  \/ GenBar
  \/ GenReturn

SpecGen == InitGen /\ [][NextGen]_vars

\* ------------------------------------------------------------------------
\* Properties of generate_trading_signals
\* ------------------------------------------------------------------------
Known(x) == x # -1

\* bar i is a long (dir = "long") or short cross that meets its threshold,
\* with every indicator it needs defined
QualifiedCross(dir, i) ==
  /\ Known(gen_df[i].rsi) /\ Known(gen_df[i].sma_rsi) /\ Known(gen_df[i].atr)
  /\ Known(gen_df[i - 1].rsi) /\ Known(gen_df[i - 1].sma_rsi)
  /\ IF dir = "long"
     THEN /\ gen_df[i].rsi > gen_df[i].sma_rsi
          /\ gen_df[i - 1].rsi <= gen_df[i - 1].sma_rsi
          /\ gen_df[i].rsi < 46
     ELSE /\ gen_df[i].rsi < gen_df[i].sma_rsi
          /\ gen_df[i - 1].rsi >= gen_df[i - 1].sma_rsi
          /\ gen_df[i].rsi > 60

\* the time of day t (seconds since midnight) lies in 03:30:00-11:59:59 or
\* in 14:15:00-15:30:00, both ends included
InSomeWindow(tod) ==
  \/ (3 * 3600 + 30 * 60 <= tod /\ tod <= 11 * 3600 + 59 * 60 + 59)
  \/ (14 * 3600 + 15 * 60 <= tod /\ tod <= 15 * 3600 + 30 * 60)

\* the filters that follow the cross test: trading window, confirmation
\* candle, 15-minute trend and nearness of a level beyond the entry
LaterFiltersPass(dir, i) ==
  LET px == gen_df[i + 1].close
      lim2 == IF gen_df[i].atr = 0 THEN (px * 2) \div 1000 ELSE gen_df[i].atr
      levels == IF dir = "long" THEN { x - px : x \in gen_df[i].r_4h \cup gen_df[i].r_15m }
                ELSE { px - x : x \in gen_df[i].s_4h \cup gen_df[i].s_15m }
  IN /\ InSomeWindow(gen_df[i].tod)
     /\ gen_df[i].trend = "down"
     /\ IF dir = "long" THEN gen_df[i + 1].close > gen_df[i + 1].open
        ELSE gen_df[i + 1].close < gen_df[i + 1].open
     /\ \A d \in levels : d > 0 => d * 2 >= lim2
     /\ \A d \in levels : (d > 0 /\ gen_df[i].atr = 0) => d * 1000 >= px

\* C20: a signal is produced for bar i as a long only when bar i is a long
\* cross (rsi[i] > sma[i], rsi[i-1] <= sma[i-1]) with rsi[i] below the long
\* threshold, and as a short only when it is a short cross (rsi[i] < sma[i],
\* rsi[i-1] >= sma[i-1]) with rsi[i] above the short threshold; a bar whose
\* oscillator or average (at i or i-1) or volatility measure is undefined
\* produces none; a qualifying cross that passes the later filters does
\* produce its signal.
C20_CrossAndThreshold ==
  /\ \A n \in 1..Len(signals) :
       /\ signals[n].direction \in { "long", "short" }
       /\ signals[n].crossover_candle_index \in 2..(Len(gen_df) - 1)
       /\ QualifiedCross(signals[n].direction, signals[n].crossover_candle_index)
  /\ gpc = "done" =>
       \A i \in 2..(Len(gen_df) - 1) : \A dir \in { "long", "short" } :
         (QualifiedCross(dir, i) /\ LaterFiltersPass(dir, i))
           => \E n \in 1..Len(signals) :
                /\ signals[n].crossover_candle_index = i
                /\ signals[n].direction = dir

\* a long signal from a cross whose previous bar had rsi equal to its average
C20_Witness ==
  /\ gpc = "done"
  /\ Len(signals) = 1
  /\ signals[1].direction = "long"
  /\ gen_df[signals[1].crossover_candle_index - 1].rsi
       = gen_df[signals[1].crossover_candle_index - 1].sma_rsi

\* the signal, if any, appended for crossing bar i
SignalsOfBar(i) == { n \in 1..Len(signals) : signals[n].crossover_candle_index = i }

\* a window's start or end time
AtWindowEdge(tod) ==
  tod \in { 3 * 3600 + 30 * 60, 11 * 3600 + 59 * 60 + 59,
            14 * 3600 + 15 * 60, 15 * 3600 + 30 * 60 }

\* C21: a signal is emitted for crossing bar i only if the time of day of
\* bar i lies in at least one trading window, the windows being closed
\* intervals: a crossing bar outside every window has no signal, and a
\* qualifying cross exactly at a window's start or end that passes the other
\* filters has its signal.
C21_TradingWindow ==
  /\ \A n \in 1..Len(signals) :
       InSomeWindow(gen_df[signals[n].crossover_candle_index].tod)
  /\ \A i \in 2..(Len(gen_df) - 1) :
       ~InSomeWindow(gen_df[i].tod) => SignalsOfBar(i) = {}
  /\ gpc = "done" =>
       \A i \in 2..(Len(gen_df) - 1) : \A dir \in { "long", "short" } :
         (AtWindowEdge(gen_df[i].tod) /\ QualifiedCross(dir, i) /\ LaterFiltersPass(dir, i))
           => SignalsOfBar(i) # {}

\* a run that emitted a signal for a crossing bar at 15:30:00, the end of a
\* window
C21_Witness ==
  /\ gpc = "done"
  /\ \E n \in 1..Len(signals) :
       gen_df[signals[n].crossover_candle_index].tod = 15 * 3600 + 30 * 60

\* C22: every emitted signal with crossing bar i is confirmed by bar i+1: a
\* long has close[i+1] > open[i+1] and a short close[i+1] < open[i+1] (a
\* bar with close = open confirms nothing); its entry time is the timestamp
\* of bar i+1 and its entry price is close[i+1]; the last bar of the series
\* is never a crossing bar.
C22_Confirmation ==
  /\ \A n \in 1..Len(signals) :
       LET i == signals[n].crossover_candle_index
       IN /\ i + 1 <= Len(gen_df)
          /\ signals[n].direction = "long" => gen_df[i + 1].close > gen_df[i + 1].open
          /\ signals[n].direction = "short" => gen_df[i + 1].close < gen_df[i + 1].open
          /\ signals[n].crossover_candle_datetime = i
          /\ signals[n].entry_datetime = i + 1
          /\ signals[n].entry_price = gen_df[i + 1].close
  /\ SignalsOfBar(Len(gen_df)) = {}

\* a finished run with a signal whose entry price, the close of bar i+1,
\* differs from the close of its crossing bar, and whose last bar is a
\* qualifying cross without a signal
C22_Witness ==
  /\ gpc = "done"
  /\ \E n \in 1..Len(signals) :
       signals[n].entry_price # gen_df[signals[n].crossover_candle_index].close
  /\ Len(gen_df) >= 3
  /\ gen_df[Len(gen_df)].rsi < gen_df[Len(gen_df)].sma_rsi
  /\ gen_df[Len(gen_df)].rsi > 60
  /\ gen_df[Len(gen_df) - 1].rsi >= gen_df[Len(gen_df) - 1].sma_rsi
  /\ Known(gen_df[Len(gen_df) - 1].sma_rsi)

\* the distance d is smaller than the nearness threshold of a signal: half
\* its ATR, or 0.1% of its entry price when the ATR is undefined or zero
CloserThanThreshold(d, sg) ==
  IF sg.atr = -1 \/ sg.atr = 0 THEN 1000 * d < sg.entry_price
  ELSE 2 * d < sg.atr

\* C23: no emitted long has a resistance level (15-minute or 4-hour) above
\* its entry price at a distance smaller than the nearness threshold, and no
\* emitted short has a support level below its entry price at a distance
\* smaller than it; the threshold is ATR[i] times 0.5, or 0.1% of the entry
\* price when the ATR is undefined or zero. The levels are those of the
\* crossing bar, which the signal records.
C23_NearnessFilter ==
  \A n \in 1..Len(signals) :
    LET sg == signals[n]
        bar == gen_df[sg.crossover_candle_index]
    IN /\ sg.atr = bar.atr
       /\ sg.resistances_15m_at_signal = bar.r_15m
       /\ sg.resistances_4h_at_signal = bar.r_4h
       /\ sg.supports_15m_at_signal = bar.s_15m
       /\ sg.supports_4h_at_signal = bar.s_4h
       /\ sg.direction = "long" =>
            \A lvl \in bar.r_15m \cup bar.r_4h :
              lvl > sg.entry_price => ~CloserThanThreshold(lvl - sg.entry_price, sg)
       /\ sg.direction = "short" =>
            \A lvl \in bar.s_15m \cup bar.s_4h :
              lvl < sg.entry_price => ~CloserThanThreshold(sg.entry_price - lvl, sg)

\* an emitted short with zero ATR whose nearest support lies below the entry
\* at exactly 0.1% of the entry price, and an emitted long with a resistance
\* one pip below its entry
C23_Witness ==
  /\ gpc = "done"
  /\ \E n \in 1..Len(signals) :
       /\ signals[n].direction = "short"
       /\ signals[n].atr = 0
       /\ \E lvl \in signals[n].supports_15m_at_signal :
            1000 * (signals[n].entry_price - lvl) = signals[n].entry_price
  /\ \E n \in 1..Len(signals) :
       /\ signals[n].direction = "long"
       /\ \E lvl \in signals[n].resistances_15m_at_signal :
            lvl = signals[n].entry_price - 1

\* C24: the list of signals is in strictly increasing order of crossing-bar
\* index, hence of crossing-bar timestamp, and no two signals of the list
\* share a crossing bar.
C24_StrictOrder ==
  \A m \in 1..Len(signals) : \A n \in 1..Len(signals) :
    m < n =>
      /\ signals[m].crossover_candle_index < signals[n].crossover_candle_index
      /\ signals[m].crossover_candle_datetime < signals[n].crossover_candle_datetime

\* a returned list of two signals, from two adjacent crossing bars
C24_Witness ==
  /\ gpc = "done"
  /\ Len(signals) = 2
  /\ signals[2].crossover_candle_index = signals[1].crossover_candle_index + 1

\* ------------------------------------------------------------------------
\* Properties of execute_backtest: one pass over the signals
\* ------------------------------------------------------------------------
\* C25: execute_backtest consumes each signal exactly once: the ledger only
\* grows at its end, by one trade at a time, and the new trade is of the
\* signal being processed, which has no trade yet (every earlier trade has an
\* earlier entry time); so the ledger holds at most one trade per signal, in
\* the order of the signals, and never more trades than signals taken.
C25_OneTradePerSignal ==
  [][ /\ \/ bt_trades' = bt_trades
         \/ /\ Len(bt_trades') = Len(bt_trades) + 1
            /\ SubSeq(bt_trades', 1, Len(bt_trades)) = bt_trades
            /\ bt_trades'[Len(bt_trades')].entry_datetime = sig.entry_datetime
            /\ bt_trades'[Len(bt_trades')].direction = sig.direction
            /\ sig' = sig
            /\ \A n \in 1..Len(bt_trades) :
                 bt_trades[n].entry_datetime < sig.entry_datetime
      /\ Len(bt_trades') <= n_sig'
    ]_vars

\* a returned ledger with one trade for each of two signals, in their order
C25_Witness ==
  /\ spc = "done"
  /\ n_sig = 2
  /\ Len(bt_trades) = 2
  /\ bt_trades[1].entry_datetime < bt_trades[2].entry_datetime

\* ------------------------------------------------------------------------
\* Properties of run_backtest: adverse excursion over the lifetime
\* ------------------------------------------------------------------------
\* the excursion a record of p must carry when p is closed on the current
\* candle: the larger of what was stored up to the previous candle's end (or
\* at creation) and the current candle's adverse move
LifetimeMae(p) == IF AdverseNow(p) > p.mae_inr THEN AdverseNow(p) ELSE p.mae_inr

\* C26: the mae_inr written to each trade record is the maximum, over every
\* candle from the entry candle through the candle on which the position is
\* closed (inclusive), of max(0, adverse distance / POINT_VALUE *
\* PNL_INR_PER_PIP), for every exit reason. Stated candle by candle: a new
\* position stores the adverse move of its entry candle; a position that
\* stays open changes its stored value only to the current candle's adverse
\* move and ends the candle with at least that; and a record written on a
\* candle carries the larger of the stored value and that candle's move.
C26_MaeOverLifetime ==
  /\ []((pc = "next" /\ t > 0) =>
          \A i \in 1..Len(AllOpen) : AllOpen[i].mae_inr >= AdverseNow(AllOpen[i]))
  /\ [][ /\ \A j \in 1..Len(AllOpen') :
              (\A i \in 1..Len(AllOpen) : Key(AllOpen[i]) # Key(AllOpen'[j]))
                => AllOpen'[j].mae_inr = AdverseNow(AllOpen'[j])
         /\ \A i \in 1..Len(AllOpen) :
              LET p == AllOpen[i]
              IN /\ \A j \in 1..Len(AllOpen') :
                      Key(AllOpen'[j]) = Key(p)
                        => AllOpen'[j].mae_inr \in { p.mae_inr, LifetimeMae(p) }
                 /\ \A j \in (Len(trades) + 1)..Len(trades') :
                      Key(trades'[j]) = Key(p) => trades'[j].mae_inr = LifetimeMae(p)
       ]_vars

\* ------------------------------------------------------------------------
\* Properties of run_backtest: position ids
\* ------------------------------------------------------------------------
\* C27: the id given to each position is unique within the run. Every
\* position is in its list right after its creation and keeps its id, and
\* there the number in its id is its rank among the positions created so far
\* (`opened` lists them in creation order, without repetition), so no two
\* positions, long or short, of the same or of different candles, including
\* candles with the same time of day, have the same id.
C27_UniqueIds ==
  /\ \A i \in 1..Len(AllOpen) :
       /\ AllOpen[i].id.n \in 1..Len(opened)
       /\ opened[AllOpen[i].id.n] = Key(AllOpen[i])
       /\ AllOpen[i].id.prefix = (IF AllOpen[i].trade_type = "LONG" THEN "LPos" ELSE "SPosOrig")
  /\ \A a \in 1..Len(opened) : \A b \in 1..Len(opened) :
       opened[a] = opened[b] => a = b
  /\ \A i \in 1..Len(AllOpen) : \A j \in 1..Len(AllOpen) :
       AllOpen[i].id = AllOpen[j].id => i = j

\* a long opened on the first candle of a later day, hence with the same
\* time of day as the first long of the run, which is in the ledger by then
C27_Witness ==
  /\ Len(open_long_positions) >= 1
  /\ Last(open_long_positions).entry_day > 0
  /\ Last(open_long_positions).id.hms = 0
  /\ Last(open_long_positions).id.n >= 3
  /\ \E j \in 1..Len(trades) :
       /\ trades[j].trade_type = "LONG"
       /\ trades[j].entry_time = 1

\* ------------------------------------------------------------------------
\* Properties of run_backtest: the empty series
\* ------------------------------------------------------------------------
\* C28: run_backtest called with an empty candle series returns an empty
\* ledger, equity equal to the starting balance (100000.00), max drawdown 0
\* and max concurrent adverse excursion 0.
C28_EmptySeries ==
  (pc = "done" /\ t = 0) =>
    /\ trades = << >>
    /\ equity = 10000000
    /\ max_drawdown[1] = 0 /\ max_drawdown[2] > 0
    /\ max_concurrent_mae = 0

\* the run over the empty series has returned
C28_Witness ==
  /\ pc = "done"
  /\ t = 0
  /\ candle = NoCandle

\* ------------------------------------------------------------------------
\* get_pivot_points
\* ------------------------------------------------------------------------
\* Rows (high, low, close, in pips) of the series handed to get_pivot_points.
PivRow(high, low, close) == [ high |-> high, low |-> low, close |-> close ]

PivBars ==
  { PivRow(1010, 990, 1000),
    PivRow(1010, 990, 1005),
    PivRow(1000, 1000, 1000),
    PivRow(1020, 1000, 1010),
    PivRow(1005, 995, 995),
    PivRow(1030, 990, 1030),
    PivRow(1003, 1000, 1001),
    PivRow(NaN, 990, 1000),
    PivRow(1010, NaN, 1000),
    PivRow(1010, 990, NaN) }

\* sorted(list(set(...))): the elements of S in ascending order, each once
RECURSIVE SortedList(_)
SortedList(S) ==
  IF S = {} THEN << >>
  ELSE LET m == CHOOSE x \in S : \A y \in S : x <= y
       IN << m >> \o SortedList(S \ {m})

\* mutant: the pivot itself is left out of both lists
GetPivotPointsWithoutPivot(df) ==
  IF df = << >> THEN NoPivots
  ELSE LET h == Last(df).high
           l == Last(df).low
           c == Last(df).close
       IN IF IsNa(h) \/ IsNa(l) \/ IsNa(c) THEN NoPivots
          ELSE LET p3 == h + l + c
                   s == { 2 * p3 - 3 * h, p3 - 3 * (h - l), 3 * l - 2 * (3 * h - p3) }
                   r == { 2 * p3 - 3 * l, p3 + 3 * (h - l), 3 * h + 2 * (p3 - 3 * l) }
               IN [ s |-> SortedList(s), r |-> SortedList(r) ]

\* get_pivot_points. p = (h + l + c) / 3 is not a whole number of pips, so
\* every level is kept multiplied by 3: p3 = 3p, and the lists hold
\* 3 * ((2*p)-h), 3 * (p-(h-l)), 3 * (l-2*(h-p)) and 3 * p, and
\* 3 * ((2*p)-l), 3 * (p+(h-l)), 3 * (h+2*(p-l)) and 3 * p.
GetPivotPoints(df) ==
  IF df = << >> THEN NoPivots
  ELSE LET h == Last(df).high
           l == Last(df).low
           c == Last(df).close
       IN IF IsNa(h) \/ IsNa(l) \/ IsNa(c) THEN NoPivots
          ELSE LET p3 == h + l + c
                   s == { 2 * p3 - 3 * h, p3 - 3 * (h - l), 3 * l - 2 * (3 * h - p3) }
                   r == { 2 * p3 - 3 * l, p3 + 3 * (h - l), 3 * h + 2 * (p3 - 3 * l) }
               IN [ s |-> SortedList(s \cup {p3}), r |-> SortedList(r \cup {p3}) ]

InitPiv ==
  /\ InitSilver
  /\ SigIdle
  /\ GenIdle
  /\ ppc = "call"
  /\ df_data \in UNION { [ 1..n -> PivBars ] : n \in 0..MaxPivRows }
  /\ pivots = NoPivots
  /\ mpc = "idle" /\ metrics_trades = << >> /\ initial_balance = 0
  /\ metrics_dict = NoMetrics

\* s, r = get_pivot_points(df_data)
CallGetPivotPoints ==
  /\ ppc = "call"
  /\ pivots' = GetPivotPoints(df_data)
  /\ ppc' = "done"
  /\ UNCHANGED << df_data, metvars >>
  /\ UNCHANGED << silvervars, sigvars, genvars >>

NextPiv == CallGetPivotPoints

SpecPiv == InitPiv /\ [][NextPiv]_vars

\* ------------------------------------------------------------------------
\* Properties of get_pivot_points
\* ------------------------------------------------------------------------
\* the elements of a list
Elems(list) == { list[i] : i \in 1..Len(list) }

\* ascending without a repeated value
StrictlyAscending(list) ==
  \A i \in 1..Len(list) : \A j \in 1..Len(list) : i < j => list[i] < list[j]

\* the input has a last bar with H, L and C defined
PivotInputUsable ==
  /\ Len(df_data) > 0
  /\ df_data[Len(df_data)].high # -1
  /\ df_data[Len(df_data)].low # -1
  /\ df_data[Len(df_data)].close # -1

\* three times P = (H+L+C)/3 of the last bar
PivotTimes3 ==
  df_data[Len(df_data)].high + df_data[Len(df_data)].low + df_data[Len(df_data)].close

\* three times the support levels 2P-H, P-(H-L), L-2(H-P) of the last bar
SupportLevelsTimes3 ==
  LET H == df_data[Len(df_data)].high
      L == df_data[Len(df_data)].low
  IN { 2 * PivotTimes3 - 3 * H,
       PivotTimes3 - 3 * H + 3 * L,
       3 * L - 6 * H + 2 * PivotTimes3 }

\* three times the resistance levels 2P-L, P+(H-L), H+2(P-L) of the last bar
ResistanceLevelsTimes3 ==
  LET H == df_data[Len(df_data)].high
      L == df_data[Len(df_data)].low
  IN { 2 * PivotTimes3 - 3 * L,
       PivotTimes3 + 3 * H - 3 * L,
       3 * H + 2 * PivotTimes3 - 6 * L }

\* C29 as stated: both lists are sorted ascending without duplicates; the
\* support list holds at most the three support levels 2P-H, P-(H-L),
\* L-2(H-P) and the resistance list at most the three resistance levels
\* 2P-L, P+(H-L), H+2(P-L), P taken from the last bar; an empty input or an
\* undefined H, L or C yields two empty lists.
C29_ThreeLevelsEach ==
  ppc = "done" =>
    /\ StrictlyAscending(pivots.s) /\ StrictlyAscending(pivots.r)
    /\ IF PivotInputUsable
       THEN /\ Elems(pivots.s) \subseteq SupportLevelsTimes3
            /\ Elems(pivots.r) \subseteq ResistanceLevelsTimes3
            /\ Len(pivots.s) <= 3 /\ Len(pivots.r) <= 3
       ELSE pivots.s = << >> /\ pivots.r = << >>

\* C29 (amended): both lists are sorted ascending without duplicates; the
\* support list holds exactly the pivot P and the three support levels (at
\* most four values) and the resistance list exactly P and the three
\* resistance levels; an empty input or an undefined H, L or C yields two
\* empty lists.
C29_PivotAndThreeLevelsEach ==
  ppc = "done" =>
    /\ StrictlyAscending(pivots.s) /\ StrictlyAscending(pivots.r)
    /\ IF PivotInputUsable
       THEN /\ Elems(pivots.s) = SupportLevelsTimes3 \cup { PivotTimes3 }
            /\ Elems(pivots.r) = ResistanceLevelsTimes3 \cup { PivotTimes3 }
            /\ Len(pivots.s) <= 4 /\ Len(pivots.r) <= 4
       ELSE pivots.s = << >> /\ pivots.r = << >>

\* a result for a two-bar input whose support list has four values, the
\* largest being P, which is none of the three support levels
C29_Witness ==
  /\ ppc = "done"
  /\ Len(df_data) = 2
  /\ Len(pivots.s) = 4
  /\ pivots.s[4] = PivotTimes3
  /\ PivotTimes3 \notin SupportLevelsTimes3

\* ------------------------------------------------------------------------
\* calculate_and_print_metrics
\* ------------------------------------------------------------------------
\* P&L values (in dollars) of the trades of the ledgers handed to the function
MetricsPnls == { -200, -100, 0, 100, 300 }

\* float('inf'), as a ratio
Infinity == << 1, 0 >>

RECURSIVE SumSeq(_)
SumSeq(list) == IF list = << >> THEN 0 ELSE Head(list) + SumSeq(Tail(list))

\* pnl_values = [trade['pnl'] for trade in trades]
PnlValues(ledger) == [ i \in 1..Len(ledger) |-> ledger[i].pnl ]

IsWinningPnl(pnl) == pnl > 0
IsLosingPnl(pnl) == pnl < 0
IsNotWinningPnl(pnl) == pnl <= 0

\* winning_trades_pnl = [pnl for pnl in pnl_values if pnl > 0]
WinningTradesPnl(pnl_values) == SelectSeq(pnl_values, IsWinningPnl)

\* mutant: a trade with P&L 0 counts as a loss
LosingTradesPnlWithZero(pnl_values) == SelectSeq(pnl_values, IsNotWinningPnl)

\* losing_trades_pnl = [pnl for pnl in pnl_values if pnl < 0]
LosingTradesPnl(pnl_values) == SelectSeq(pnl_values, IsLosingPnl)

\* mutant: the peak stays at the first value of the curve
NewPeakNeverRaised(peak_equity_so_far, equity_value) == peak_equity_so_far

\* if equity_value > peak_equity: peak_equity = equity_value
NewPeak(peak_equity_so_far, equity_value) ==
  IF equity_value > peak_equity_so_far THEN equity_value ELSE peak_equity_so_far

\* (peak_equity - equity_value) / peak_equity if peak_equity != 0 else 0, as a
\* ratio with a positive denominator
Drawdown(peak_equity_so_far, equity_value) ==
  IF peak_equity_so_far = 0 THEN << 0, 1 >>
  ELSE IF peak_equity_so_far > 0
  THEN << peak_equity_so_far - equity_value, peak_equity_so_far >>
  ELSE << equity_value - peak_equity_so_far, 0 - peak_equity_so_far >>

\* x > y for two ratios with positive denominators
RatioGreater(x, y) == x[1] * y[2] > y[1] * x[2]

\* the loop `for equity_value in equity_curve` from the value it is at
RECURSIVE DrawdownLoop(_, _, _)
DrawdownLoop(equity_curve, peak_equity_so_far, max_dd) ==
  IF equity_curve = << >> THEN max_dd
  ELSE LET equity_value == Head(equity_curve)
           new_peak == NewPeak(peak_equity_so_far, equity_value)
           drawdown == Drawdown(new_peak, equity_value)
       IN DrawdownLoop(Tail(equity_curve), new_peak,
                       IF RatioGreater(drawdown, max_dd) THEN drawdown ELSE max_dd)

\* equity_curve = [initial_balance] + [trade['account_balance_after_trade'] ...]
EquityCurve(ledger, initial) ==
  << initial >> \o [ i \in 1..Len(ledger) |-> ledger[i].account_balance_after_trade ]

\* max_drawdown after the loop, started with peak_equity = equity_curve[0]
\* and max_drawdown = 0.0
MetricsMaxDrawdown(ledger, initial) ==
  DrawdownLoop(EquityCurve(ledger, initial), EquityCurve(ledger, initial)[1], << 0, 1 >>)

\* the metrics_dict entries about wins, losses and drawdown; win_rate,
\* profit_factor and max_drawdown_percentage are kept as ratios
\* << numerator, denominator >>
MetricsDict(ledger, initial) ==
  IF ledger = << >> THEN NoMetrics
  ELSE LET total_trades == Len(ledger)
           pnl_values == PnlValues(ledger)
           winning_trades_pnl == WinningTradesPnl(pnl_values)
           losing_trades_pnl == LosingTradesPnl(pnl_values)
           num_winning_trades == Len(winning_trades_pnl)
           num_losing_trades == Len(losing_trades_pnl)
           gross_profit == SumSeq(winning_trades_pnl)
           gross_loss_for_pf == Abs(SumSeq(losing_trades_pnl))
       IN [ none |-> FALSE,
            total_trades |-> total_trades,
            winning_trades |-> num_winning_trades,
            losing_trades |-> num_losing_trades,
            win_rate |-> << num_winning_trades * 100, total_trades >>,
            profit_factor |-> IF gross_loss_for_pf # 0
                              THEN << gross_profit, gross_loss_for_pf >>
                              ELSE Infinity,
            max_drawdown_percentage |->
              << MetricsMaxDrawdown(ledger, initial)[1] * 100,
                 MetricsMaxDrawdown(ledger, initial)[2] >> ]

\* initial balances (in dollars) the function is called with: one that the
\* losses of a ledger cannot use up, one that they can exceed, and none at all
MetricsInitialBalances == { 0, 300, 1000 }

\* a ledger as execute_backtest builds it: each record carries its pnl and
\* the balance after it
MetricsLedger(pnls, initial) ==
  [ i \in 1..Len(pnls) |->
      [ pnl |-> pnls[i],
        account_balance_after_trade |-> initial + SumSeq(SubSeq(pnls, 1, i)) ] ]

InitMet ==
  /\ InitSilver
  /\ SigIdle
  /\ GenIdle
  /\ ppc = "idle" /\ df_data = << >> /\ pivots = NoPivots
  /\ mpc = "call"
  /\ initial_balance \in MetricsInitialBalances
  /\ metrics_trades \in
       { MetricsLedger(pnls, initial_balance) :
           pnls \in UNION { [ 1..n -> MetricsPnls ] : n \in 0..MaxTrades } }
  /\ metrics_dict = NoMetrics

\* metrics_summary = calculate_and_print_metrics(executed_trades, ...)
CallCalculateMetrics ==
  /\ mpc = "call"
  /\ metrics_dict' = MetricsDict(metrics_trades, initial_balance)
  /\ mpc' = "done"
  /\ UNCHANGED << metrics_trades, initial_balance, pivvars >>
  /\ UNCHANGED << silvervars, sigvars, genvars >>

NextMet == CallCalculateMetrics

SpecMet == InitMet /\ [][NextMet]_vars

\* ------------------------------------------------------------------------
\* Properties of calculate_and_print_metrics
\* ------------------------------------------------------------------------
\* the trades of the ledger with positive, negative and zero P&L
Winners == { i \in 1..Len(metrics_trades) : metrics_trades[i].pnl > 0 }
Losers == { i \in 1..Len(metrics_trades) : metrics_trades[i].pnl < 0 }
Flat == { i \in 1..Len(metrics_trades) : metrics_trades[i].pnl = 0 }

\* sum of the P&L of the trades in I
RECURSIVE PnlOf(_)
PnlOf(I) ==
  IF I = {} THEN 0
  ELSE LET i == CHOOSE x \in I : TRUE
       IN metrics_trades[i].pnl + PnlOf(I \ {i})

\* C30: for a ledger with trades, profit_factor = (sum of positive P&L) /
\* |sum of negative P&L| when the ledger has at least one losing trade and
\* +infinity when it has none; win_rate = winning trades / total trades *
\* 100; and winning_trades + losing_trades <= total_trades with equality
\* exactly when no trade has P&L 0. (For a ledger without trades nothing is
\* reported.)
C30_Metrics ==
  mpc = "done" =>
    IF metrics_trades = << >> THEN metrics_dict.none
    ELSE /\ ~metrics_dict.none
         /\ metrics_dict.total_trades = Len(metrics_trades)
         /\ metrics_dict.winning_trades = Cardinality(Winners)
         /\ metrics_dict.losing_trades = Cardinality(Losers)
         /\ Losers # {} =>
              /\ metrics_dict.profit_factor[2] > 0
              /\ metrics_dict.profit_factor[1] * (0 - PnlOf(Losers))
                   = PnlOf(Winners) * metrics_dict.profit_factor[2]
         /\ Losers = {} => metrics_dict.profit_factor = << 1, 0 >>
         /\ metrics_dict.win_rate[2] > 0
         /\ metrics_dict.win_rate[1] * Len(metrics_trades)
              = Cardinality(Winners) * 100 * metrics_dict.win_rate[2]
         /\ metrics_dict.winning_trades + metrics_dict.losing_trades
              <= metrics_dict.total_trades
         /\ (metrics_dict.winning_trades + metrics_dict.losing_trades
              = metrics_dict.total_trades) <=> (Flat = {})

\* metrics of a ledger with a winning, a losing and a flat trade
C30_Witness ==
  /\ mpc = "done"
  /\ Winners # {} /\ Losers # {} /\ Flat # {}
  /\ metrics_dict.winning_trades + metrics_dict.losing_trades < metrics_dict.total_trades
  /\ metrics_dict.profit_factor # << 1, 0 >>

\* the equity curve: position 1 is the initial balance, position i + 1 the
\* balance after trade i
CurvePoint(i) ==
  IF i = 1 THEN initial_balance ELSE metrics_trades[i - 1].account_balance_after_trade

\* running maximum of the curve up to position i
RECURSIVE RunningPeak(_)
RunningPeak(i) ==
  IF i = 1 THEN CurvePoint(1)
  ELSE IF CurvePoint(i) > RunningPeak(i - 1) THEN CurvePoint(i) ELSE RunningPeak(i - 1)

\* C31: for a ledger with trades, the max drawdown (reported times 100, as a
\* percentage) equals the maximum over the equity curve [initial balance,
\* balance after trade 1, ..., balance after trade n] of (peak - equity) /
\* peak, peak being the running maximum of the curve up to that point and
\* the term being 0 when the peak is 0; it is never negative. (No point of
\* the curve has a larger term, and some point has exactly this term.)
C31_MaxDrawdown ==
  (mpc = "done" /\ metrics_trades # << >>) =>
    LET num == metrics_dict.max_drawdown_percentage[1]
        den == metrics_dict.max_drawdown_percentage[2]
        points == 1..(Len(metrics_trades) + 1)
    IN /\ den > 0
       /\ num >= 0
       /\ \A i \in points :
            IF RunningPeak(i) = 0 THEN num >= 0
            ELSE num * RunningPeak(i) >= 100 * (RunningPeak(i) - CurvePoint(i)) * den
       /\ \E i \in points :
            IF RunningPeak(i) = 0 THEN num = 0
            ELSE num * RunningPeak(i) = 100 * (RunningPeak(i) - CurvePoint(i)) * den

\* a curve that rises above the initial balance and then falls below it: the
\* largest drawdown is measured from the later, higher peak
C31_Witness ==
  /\ mpc = "done"
  /\ Len(metrics_trades) = 3
  /\ initial_balance = 300
  /\ metrics_trades[1].account_balance_after_trade > initial_balance
  /\ metrics_trades[3].account_balance_after_trade < initial_balance
  /\ metrics_dict.max_drawdown_percentage[2] = metrics_trades[1].account_balance_after_trade
  /\ metrics_dict.max_drawdown_percentage[1] > 0

\* ------------------------------------------------------------------------
\* Properties of execute_backtest: balance, levels and order of the records
\* ------------------------------------------------------------------------
\* sum of the pnl of the first n records of the ledger
RECURSIVE LedgerPnl(_)
LedgerPnl(n) == IF n = 0 THEN 0 ELSE bt_trades[n].pnl + LedgerPnl(n - 1)

\* C32: the P&L of each trade is added to the running balance when the
\* trade is recorded: the account_balance_after_trade of the k-th record is
\* the initial balance (100000.00) plus the sum of pnl of records 1..k, the
\* balance, and so the returned final balance, is the initial balance plus
\* the sum of pnl of all records, and pnl = (exit - entry) * (+1 long, -1
\* short) * units (200).
C32_RunningBalance ==
  /\ \A n \in 1..Len(bt_trades) :
       /\ bt_trades[n].account_balance_after_trade = 10000000 + LedgerPnl(n)
       /\ bt_trades[n].pnl =
            (bt_trades[n].exit_price - bt_trades[n].entry_price)
              * (IF bt_trades[n].direction = "long" THEN 1 ELSE -1) * 200
  /\ balance = 10000000 + LedgerPnl(Len(bt_trades))

\* a returned ledger with a losing and a winning trade and a final balance
\* that is not the initial one
C32_Witness ==
  /\ spc = "done"
  /\ Len(bt_trades) = 2
  /\ bt_trades[1].pnl * bt_trades[2].pnl < 0
  /\ bt_trades[1].pnl + bt_trades[2].pnl # 0
  /\ balance = bt_trades[2].account_balance_after_trade

\* the stop and target in force belong to the last record of the ledger
LastRecordIsOfSig ==
  /\ Len(bt_trades) > 0
  /\ bt_trades[Len(bt_trades)].entry_datetime = sig.entry_datetime

\* C34: every trade that execute_backtest scans and records has its stop
\* strictly below and its target strictly above the entry price when long,
\* and the reverse when short; so every record that left at the stop has
\* pnl < 0, every record that left at the target has pnl > 0, and the exit
\* bar of every record is strictly later than its entry bar.
C34_LevelsAroundEntry ==
  /\ (spc = "scan" \/ LastRecordIsOfSig) =>
       /\ sig.direction = "long" =>
            stop_loss_price < sig.entry_price /\ sig.entry_price < take_profit_price
       /\ sig.direction = "short" =>
            take_profit_price < sig.entry_price /\ sig.entry_price < stop_loss_price
  /\ \A n \in 1..Len(bt_trades) :
       /\ bt_trades[n].exit_reason = "SL Hit (S/R)" => bt_trades[n].pnl < 0
       /\ bt_trades[n].exit_reason = "TP Hit (S/R)" => bt_trades[n].pnl > 0
       /\ bt_trades[n].exit_datetime > bt_trades[n].entry_datetime
       /\ bt_trades[n].duration_bars >= 1

\* a long stopped out and a short that reached its target are both recorded,
\* the short being the trade whose levels are in force
C34_Witness ==
  /\ spc = "done"
  /\ LastRecordIsOfSig
  /\ sig.direction = "short"
  /\ bt_trades[Len(bt_trades)].exit_reason = "TP Hit (S/R)"
  /\ \E n \in 1..Len(bt_trades) :
       bt_trades[n].direction = "long" /\ bt_trades[n].exit_reason = "SL Hit (S/R)"

\* ------------------------------------------------------------------------
\* Properties of run_backtest: daily reference and entry trigger
\* ------------------------------------------------------------------------
\* C33: the daily reference price changes only when a candle of another
\* calendar day than the previous one is read, and then equals that candle's
\* open; the long entry trigger is daily_open * (1 - 0.005) when no open long
\* carries the current daily reference, otherwise the entry price of the
\* most recently entered such long minus 0.50; a long is opened iff the
\* concurrency check passes and the candle low <= trigger, its entry price
\* is the trigger and its daily_open_ref the current daily reference.
C33_DailyReferenceAndTrigger ==
  /\ [][ IF candle' # candle
         THEN daily_open_price' =
                (IF t = 0 \/ candle'.day # candle.day THEN candle'.open
                 ELSE daily_open_price)
         ELSE daily_open_price' = daily_open_price ]_vars
  /\ [][ pc = "entry" =>
           IF Len(open_long_positions) + Len(open_short_positions) < 30
              /\ candle.low <= TriggerFromSurvivors
           THEN /\ Len(open_long_positions') = Len(open_long_positions) + 1
                /\ SubSeq(open_long_positions', 1, Len(open_long_positions))
                     = open_long_positions
                /\ open_long_positions'[Len(open_long_positions')].entry_price
                     = TriggerFromSurvivors
                /\ open_long_positions'[Len(open_long_positions')].daily_open_ref
                     = daily_open_price
                /\ open_long_positions'[Len(open_long_positions')].entry_time = candle.t
           ELSE open_long_positions' = open_long_positions ]_vars
  /\ [][ Len(open_long_positions') > Len(open_long_positions) => pc = "entry" ]_vars

\* a second long of the same day, just opened 0.50 below the first, which
\* is still open, on a later candle of that day
C33_Witness ==
  /\ pc = "open_short"
  /\ Len(open_long_positions) = 2
  /\ open_long_positions[1].daily_open_ref = daily_open_price
  /\ open_long_positions[2].daily_open_ref = daily_open_price
  /\ open_long_positions[2].entry_price = open_long_positions[1].entry_price - 50
  /\ open_long_positions[2].entry_time = candle.t
  /\ open_long_positions[1].entry_time < candle.t
  /\ candle.day = open_long_positions[1].entry_day

\* ------------------------------------------------------------------------
\* Properties of run_backtest: order of the ledger
\* ------------------------------------------------------------------------
IsClosedRecord(r) ==
  r.status \in { "CLOSED_TP", "CLOSED_TP_SAME_CANDLE", "CLOSED_90_DAY_RULE" }

\* C35: in the ledger of run_backtest the records with a closed status are
\* in non-decreasing order of exit_time, each of them has entry_time <=
\* exit_time, and every STILL_OPEN record comes after every closed record.
C35_LedgerOrder ==
  /\ \A i \in 1..Len(trades) :
       IsClosedRecord(trades[i]) => trades[i].entry_time <= trades[i].exit_time
  /\ \A i \in 1..Len(trades) : \A j \in 1..Len(trades) :
       /\ (i < j /\ IsClosedRecord(trades[i]) /\ IsClosedRecord(trades[j]))
            => trades[i].exit_time <= trades[j].exit_time
       /\ (IsClosedRecord(trades[i]) /\ trades[j].status = "STILL_OPEN") => i < j

\* a returned ledger with closed records of two different candles, one of
\* them held over more than one candle, followed by a position still open
C35_Witness ==
  /\ pc = "done"
  /\ \E i \in 1..Len(trades) : \E j \in 1..Len(trades) :
       /\ i < j
       /\ IsClosedRecord(trades[i]) /\ IsClosedRecord(trades[j])
       /\ trades[i].exit_time < trades[j].exit_time
       /\ trades[j].entry_time < trades[j].exit_time
  /\ trades[Len(trades)].status = "STILL_OPEN"

\* ------------------------------------------------------------------------
\* Properties of run_backtest: peak equity and maximum drawdown
\* ------------------------------------------------------------------------
\* the equity after the n-th record of the ledger was written
RECURSIVE EquityReached(_)
EquityReached(n) ==
  IF n = 0 THEN 10000000
  ELSE EquityReached(n - 1)
       + (IF IsClosedRecord(trades[n]) THEN trades[n].net_pnl_inr ELSE 0)

\* C36: after every equity update of run_backtest peak_equity >= equity and
\* peak_equity >= the starting balance (100000.00 INR); peak_equity is the
\* greatest of the starting balance and every equity value reached so far;
\* peak_equity and max_drawdown never decrease during a run.
C36_PeakIsRunningMaximum ==
  /\ [](/\ peak_equity >= equity
        /\ peak_equity >= 10000000
        /\ \A n \in 0..Len(trades) : peak_equity >= EquityReached(n)
        /\ \E n \in 0..Len(trades) : peak_equity = EquityReached(n))
  /\ [][/\ peak_equity' >= peak_equity
         /\ FracLeq(max_drawdown[1], max_drawdown[2],
                    max_drawdown'[1], max_drawdown'[2])]_vars

\* the equity rose above the starting balance and fell back below it: the
\* peak stays at the highest value and the drawdown is positive
C36_Witness ==
  /\ pc = "done"
  /\ peak_equity > 10000000
  /\ equity < 10000000
  /\ max_drawdown[1] > 0
  /\ \E n \in 1..Len(trades) : EquityReached(n) = peak_equity /\ n < Len(trades)

\* ------------------------------------------------------------------------
\* Properties of run_backtest: what takes part in the checks of one candle
\* ------------------------------------------------------------------------
\* the positions the loop in progress has still to look at
InExitCheck == pc \in { "rule90_long", "rule90_short", "tp_long", "tp_short" }

ClosedByRuleOnThisCandle(p) ==
  \E n \in 1..Len(trades) :
    /\ trades[n].status = "CLOSED_90_DAY_RULE"
    /\ trades[n].exit_time = candle.t
    /\ trades[n].trade_type = p.trade_type
    /\ trades[n].entry_time = p.entry_time

\* C37: on any single candle run_backtest opens at most one long and one
\* paired short; a position opened on a candle is looked at by no exit check
\* of that candle but the same-candle take-profit check; and a position the
\* time-limit rule closed on a candle is looked at by no later check of that
\* candle.
C37_OneEntryAndNoSecondCheck ==
  /\ \A i \in 1..Len(opened) : \A j \in 1..Len(opened) :
       (i # j) => opened[i] # opened[j]
  /\ InExitCheck => \A i \in 1..Len(todo) : todo[i].entry_time < candle.t
  /\ \A n \in 1..Len(trades) :
       (trades[n].status \in { "CLOSED_TP", "CLOSED_90_DAY_RULE" })
         => trades[n].entry_time < trades[n].exit_time
  /\ (pc \in { "tp_long", "tp_short" }) =>
       \A i \in 1..Len(todo) : ~ClosedByRuleOnThisCandle(todo[i])
  /\ pc = "same_tp_long" => ~ClosedByRuleOnThisCandle(Last(open_long_positions))
  /\ pc = "same_tp_short" => ~ClosedByRuleOnThisCandle(Last(open_short_positions))

\* the time-limit rule closed a long on this candle and the take-profit
\* loop is about to look at another long that is still open
C37_Witness ==
  /\ pc = "tp_long"
  /\ todo # << >>
  /\ \E n \in 1..Len(trades) :
       /\ trades[n].status = "CLOSED_90_DAY_RULE"
       /\ trades[n].trade_type = "LONG"
       /\ trades[n].exit_time = candle.t

====
